---- MODULE Spec2Model ----
(***************************************************************************)
(* State-machine model of PineconeService (src/pinecone-setup/             *)
(* pinecone-client.js) under the configuration of                          *)
(* src/slack-bot/pinecone-config.js: the retry executor, vector            *)
(* validation, single and batched upsert, and digest processing.           *)
(*                                                                         *)
(* Time is not measured: a timeout, the settling of a network call and the *)
(* end of a sleep are events the environment chooses.  Delays are kept as  *)
(* numbers (in units of the configured initialDelay scale) so that the     *)
(* backoff arithmetic is the code's.  A values array is modelled by its    *)
(* length, a metadata object by the mapping from its keys to its values.   *)
(***************************************************************************)
EXTENDS Integers, Sequences, FiniteSets, Bags, TLC

VARIABLES
    config,      \* ERROR_CONFIG / BATCH_CONFIG values in force (fixed per run)
    rt,          \* one record per executeWithRetry call in progress or finished
    storeCalls,  \* the index.upsert requests issued so far (a bag; each names its task)
    up,          \* the upsertVectors / batchUpsertVectors call
    metrics,     \* this.metrics: counts per operation, error counts per operation
    proc,        \* the processAndUpsertDigestContent call
    healthStatus, \* this.healthStatus
    probes,      \* the performHealthCheck calls: how many started, which are
                 \* awaited, and the outcomes in the order they were recorded
    gen,         \* the generateEmbeddings call (of either service)
    costTracking, \* OpenAIService's this.costTracking
    pure,        \* the call of a synchronous helper of the service: its
                 \* name, its arguments and, once it has returned, its result
    search,      \* the searchPublisherContent / searchContentByDateRange call
    recorded,    \* the recordMetric and recordError calls made so far, in
                 \* order (history)
    service      \* this.isInitialized, this.client, this.index, the
                 \* initialize calls and the interval timers they have set

vars == <<config, rt, storeCalls, up, metrics, proc, healthStatus, probes,
          gen, costTracking, pure, search, recorded, service>>

---------------------------------------------------------------------------
(* Bounds of the model *)
MaxRetriesBound == 3    \* ERROR_CONFIG.maxRetries ranges over 1..MaxRetriesBound
MaxInitialDelay == 3    \* ERROR_CONFIG.initialDelay ranges over 1..MaxInitialDelay
MaxMultiplier   == 2    \* ERROR_CONFIG.backoffMultiplier ranges over 1..MaxMultiplier
MaxMaxDelay     == 3    \* ERROR_CONFIG.maxDelay ranges over 1..MaxMaxDelay
MaxBatchSize          == 2   \* BATCH_CONFIG.maxBatchSize ranges over 1..MaxBatchSize
MaxConcurrentBatches  == 2   \* BATCH_CONFIG.maxConcurrentBatches likewise
MaxStoreRetries       == 2   \* maxRetries in the upsert runs ranges over 1..MaxStoreRetries
MaxVectors            == 4   \* longest list passed to upsertVectors
MaxContentLength      == 4   \* longest content passed to processAndUpsertDigestContent
MaxProbes             == 7   \* performHealthCheck calls in one run
MaxOverlappingProbes  == 2   \* getIndexStats calls of probes alive at once
MaxTexts              == 2   \* most texts passed to generateEmbeddings
MaxTokens             == 2   \* most tokens a response's usage reports
MaxIds                == 2   \* most ids (or matches) of a query, delete or fetch
MaxChunkSize          == 2   \* chunkContentForEmbedding's maxChunkSize (8000, scaled to the contents)
MaxRequests           == 3   \* embedding calls counted in one session of OpenAIService
MaxTextLength         == 5   \* longest text passed to chunkContentForEmbedding on its own
MaxNameLength         == 7   \* longest table entry passed to normalizePublisherName on its own
MaxPadding            == 1   \* most spaces put before or after such a name
MaxMatches            == 1   \* most matches a search is answered with
MaxRecords            == 3   \* recordMetric and recordError calls made from outside in one run
MaxCount              == 1   \* largest count passed to recordMetric from outside
MaxWriters            == 2   \* queries started in one run of concurrent writers
MaxTicks              == 1   \* health probes started in such a run
MaxInitializeCalls    == 2   \* initialize calls on one service
MaxPolls              == 2   \* describeIndex polls of one waitForIndexReady

---------------------------------------------------------------------------
(* Helpers *)
Max(a, b) == IF a >= b THEN a ELSE b

Min(a, b) == IF a <= b THEN a ELSE b

RECURSIVE Pow(_, _)
Pow(b, e) == IF e = 0 THEN 1 ELSE b * Pow(b, e - 1)

EmptyMap == [x \in {} |-> 0]

---------------------------------------------------------------------------
(* Errors and results.  `at` is the 0-based attempt that produced the      *)
(* value, so that the errors of different attempts are different objects.  *)
Error(message, at) ==
    [message |-> message, at |-> at, field |-> "", expected |-> -1, actual |-> -1]

NoError  == Error("none", -1)
NoResult == [value |-> "none", at |-> -1]

NetworkError == "Network error"
AuthError    == "Authentication failed (401)"
TimeoutError == "Operation timeout"      \* timeoutPromise's rejection

OperationErrors == {NetworkError, AuthError}

\* the rejections drawn for a call: the code never looks at the error, and
\* one kind is kept for the store so that concurrent batches stay enumerable
rejectionsOf(api) == IF api = "op" THEN OperationErrors ELSE {NetworkError}

---------------------------------------------------------------------------
(* ERROR_CONFIG as the executor reads it *)
ERROR_CONFIG == config.error

ErrorConfigs ==
    [maxRetries        : 1..MaxRetriesBound,
     backoffMultiplier : 1..MaxMultiplier,
     initialDelay      : 1..MaxInitialDelay,
     maxDelay          : 1..MaxMaxDelay]

---------------------------------------------------------------------------
(* executeWithRetry, statement by statement *)

\* let delay = ERROR_CONFIG.initialDelay;  attempt = 0;  first operation()
\* (request is what the wrapped operation sends on every invocation)
newRetry(request) ==
    [pc        |-> "pending",
     request   |-> request,
     attempt   |-> 0,
     delay     |-> ERROR_CONFIG.initialDelay,
     lastError |-> NoError,
     calls     |-> 1,
     open      |-> 1,           \* calls of operation() whose promise has not settled
     sleeps    |-> <<>>,
     outcomes  |-> <<>>,
     result    |-> NoResult]

\* if (attempt === ERROR_CONFIG.maxRetries - 1) break;
isLastAttempt(attempt) == attempt = ERROR_CONFIG.maxRetries - 1

\* (variant: only the first error is kept)
recordLastError_KeepFirst(previous, error) ==
    IF previous.message = "none" THEN error ELSE previous

\* lastError = error;
recordLastError(previous, error) == error

\* delay = Math.min(delay * ERROR_CONFIG.backoffMultiplier, ERROR_CONFIG.maxDelay);
nextDelay(delay) ==
    Min(delay * ERROR_CONFIG.backoffMultiplier, ERROR_CONFIG.maxDelay)

\* (variant: the value is not returned and the loop goes on)
onAttemptResolved_NoReturn(s, value) ==
    IF s.attempt + 1 < ERROR_CONFIG.maxRetries
    THEN [s EXCEPT !.outcomes = Append(@, "ok"), !.attempt = @ + 1, !.calls = @ + 1]
    ELSE [s EXCEPT !.outcomes = Append(@, "ok"), !.pc = "rejected", !.open = @ - 1]

\* return await Promise.race([...]) when the operation wins the race
onAttemptResolved(s, value) ==
    [s EXCEPT !.pc = "resolved",
              !.result = [value |-> value, at |-> s.attempt],
              !.open = @ - 1,
              !.outcomes = Append(@, "ok")]

\* the catch block: the operation rejected, or the timeout won the race (the
\* race does not cancel operation(): its promise stays unsettled)
onAttemptFailed(s, message) ==
    LET error == Error(message, s.attempt)
        s1 == [s EXCEPT !.lastError = recordLastError(s.lastError, error),
                        !.open = IF message = TimeoutError THEN @ ELSE @ - 1,
                        !.outcomes = Append(@, message)]
    IN  IF isLastAttempt(s.attempt)
        THEN [s1 EXCEPT !.pc = "rejected"]                  \* break; throw lastError
        ELSE [s1 EXCEPT !.pc = "sleeping",                  \* await this.sleep(delay)
                        !.sleeps = Append(@, s.delay)]

\* the sleep ends: the delay is raised, attempt++, and while
\* attempt < ERROR_CONFIG.maxRetries the operation is called again
onSleepDone(s) ==
    IF s.attempt + 1 < ERROR_CONFIG.maxRetries
    THEN [s EXCEPT !.pc = "pending",
                   !.delay = nextDelay(s.delay),
                   !.attempt = @ + 1,
                   !.open = @ + 1,
                   !.calls = @ + 1]
    ELSE [s EXCEPT !.pc = "rejected",                       \* throw lastError
                   !.delay = nextDelay(s.delay),
                   !.attempt = @ + 1]

---------------------------------------------------------------------------
(* Task names: one executeWithRetry call each *)
OpTask       == <<"op", 0>>          \* executeWithRetry called with an operation
UpsertTask   == <<"upsert", 0>>      \* upsertVectors: the single-batch upsert
BatchTask(i) == <<"batch", i>>       \* upsertSingleBatch(batch, namespace, i)

EmbedTask    == <<"embed", 0>>       \* generateEmbeddings: openai.embeddings.create

OpRequest == [api |-> "op", vectors |-> <<>>, namespace |-> "", input |-> <<>>]

UpsertRequest(vectors, namespace) ==
    [api |-> "upsert", vectors |-> vectors, namespace |-> namespace, input |-> <<>>]

\* openai.embeddings.create({model, input: textArray, encoding_format})
EmbedRequest(textArray) ==
    [api |-> "embed", vectors |-> <<>>, namespace |-> "", input |-> textArray]

Pending(t)  == t \in DOMAIN rt /\ rt[t].pc = "pending"
Sleeping(t) == t \in DOMAIN rt /\ rt[t].pc = "sleeping"
Finished(t) == t \in DOMAIN rt /\ rt[t].pc \in {"resolved", "rejected"}

---------------------------------------------------------------------------
(* The service and its environment as one value, so that a handler and the *)
(* continuations it runs before the next event are one function of it.     *)
World ==
    [rt |-> rt, storeCalls |-> storeCalls, up |-> up, metrics |-> metrics,
     proc |-> proc, healthStatus |-> healthStatus, probes |-> probes,
     gen |-> gen, costTracking |-> costTracking, search |-> search,
     recorded |-> recorded, service |-> service]

Commit(w) ==
    /\ rt' = w.rt
    /\ storeCalls' = w.storeCalls
    /\ up' = w.up
    /\ metrics' = w.metrics
    /\ proc' = w.proc
    /\ healthStatus' = w.healthStatus
    /\ probes' = w.probes
    /\ gen' = w.gen
    /\ costTracking' = w.costTracking
    /\ search' = w.search
    /\ recorded' = w.recorded
    /\ service' = w.service
    /\ UNCHANGED <<config, pure>>

\* operation(): the wrapped call is issued
invoke(w, t, request) ==
    IF request.api = "upsert"
    THEN [w EXCEPT !.storeCalls =
             @ (+) SetToBag({[task |-> t, vectors |-> request.vectors,
                              namespace |-> request.namespace]})]
    ELSE w

\* executeWithRetry(operation) up to its first await
startRetry(w, t, request) ==
    invoke([w EXCEPT !.rt = @ @@ (t :> newRetry(request))], t, request)

---------------------------------------------------------------------------
(* Configuration constants of pinecone-config.js *)
BATCH_CONFIG == config.batch

BatchConfigs ==
    [maxBatchSize         : 1..MaxBatchSize,
     maxConcurrentBatches : 1..MaxConcurrentBatches]

PINECONE_CONFIG == [dimensions |-> 1536]

VALIDATION_CONFIG ==
    [enforceSchema            |-> TRUE,
     validateVectorDimensions |-> TRUE,
     validateMetadata         |-> TRUE,
     allowExtraFields         |-> FALSE,
     requiredFields           |-> <<"publisher", "date", "content_type", "source">>]

\* Object.keys(VECTOR_METADATA_SCHEMA)
VECTOR_METADATA_SCHEMA ==
    {"publisher", "date", "content_type", "source",
     "section", "timestamp", "content_length", "confidence_score", "summary",
     "keywords", "sentiment", "category", "priority",
     "created_at", "updated_at", "version", "processed_by"}

NAMESPACE_CONFIG == [daily_digests |-> "daily-digests"]

---------------------------------------------------------------------------
(* Vectors.  id 0 stands for a missing (falsy) id, values NoValues for a   *)
(* missing or non-array values, otherwise values is the array's length;    *)
(* metadata is absent, or the object as a mapping from its keys.           *)
NoValues == -1

NoMetadata  == [present |-> FALSE, fields |-> EmptyMap]
Metadata(f) == [present |-> TRUE, fields |-> f]

Ok == Error("ok", -1)

ValidationError(message, field, expected, actual) ==
    [message |-> message, at |-> -1, field |-> field,
     expected |-> expected, actual |-> actual]

\* !metadata[field]: the key is absent or its (string) value is empty
missingField(metadata, field) ==
    field \notin DOMAIN metadata \/ metadata[field] = ""

\* validateMetadata(metadata); an extra-field error names the first offending
\* key in insertion order, which a mapping does not keep: the name is left out
validateMetadata(metadata) ==
    LET req     == VALIDATION_CONFIG.requiredFields
        missing == {i \in 1..Len(req) : missingField(metadata, req[i])}
        first   == CHOOSE i \in missing : \A j \in missing : i <= j
    IN  IF ~VALIDATION_CONFIG.enforceSchema THEN Ok
        ELSE IF missing # {}
        THEN ValidationError("Required metadata field missing", req[first], -1, -1)
        ELSE IF /\ ~VALIDATION_CONFIG.allowExtraFields
                /\ (DOMAIN metadata) \ VECTOR_METADATA_SCHEMA # {}
        THEN ValidationError("Extra metadata field not allowed", "", -1, -1)
        ELSE Ok

\* (variant: only a too short values array is a mismatch)
dimensionsMismatch_TooShortOnly(vector) ==
    vector.values < PINECONE_CONFIG.dimensions

\* vector.values.length !== PINECONE_CONFIG.dimensions
dimensionsMismatch(vector) ==
    vector.values # PINECONE_CONFIG.dimensions

\* the body of validateVectors' loop
validateVector(vector) ==
    IF vector.id = 0
    THEN ValidationError("Vector must have an id", "", -1, -1)
    ELSE IF vector.values = NoValues
    THEN ValidationError("Vector must have values array", "", -1, -1)
    ELSE IF VALIDATION_CONFIG.validateVectorDimensions /\ dimensionsMismatch(vector)
    THEN ValidationError("Vector dimensions mismatch", "",
                         PINECONE_CONFIG.dimensions, vector.values)
    ELSE IF VALIDATION_CONFIG.validateMetadata /\ vector.metadata.present
    THEN validateMetadata(vector.metadata.fields)
    ELSE Ok

\* (variant: only the vectors of the first batch are validated)
validateVectors_FirstBatchOnly(vectors) ==
    LET n   == Min(Len(vectors), BATCH_CONFIG.maxBatchSize)
        bad == {i \in 1..n : validateVector(vectors[i]) # Ok}
    IN  IF bad = {} THEN Ok
        ELSE validateVector(vectors[CHOOSE i \in bad : \A j \in bad : i <= j])

\* validateVectors(vectors): the error of the first vector that fails, in order
validateVectors(vectors) ==
    LET bad == {i \in 1..Len(vectors) : validateVector(vectors[i]) # Ok}
    IN  IF bad = {} THEN Ok
        ELSE validateVector(vectors[CHOOSE i \in bad : \A j \in bad : i <= j])

---------------------------------------------------------------------------
(* chunkArray(array, size) *)
RECURSIVE chunkFrom_DropPartial(_, _, _)
chunkFrom_DropPartial(array, size, i) ==
    IF i + size > Len(array) THEN <<>>
    ELSE <<SubSeq(array, i + 1, i + size)>> \o chunkFrom_DropPartial(array, size, i + size)

\* (variant: a trailing chunk shorter than size is dropped)
chunkArray_DropPartial(array, size) == chunkFrom_DropPartial(array, size, 0)

\* for (let i = 0; i < array.length; i += size) chunks.push(array.slice(i, i + size))
RECURSIVE chunkFrom(_, _, _)
chunkFrom(array, size, i) ==
    IF i >= Len(array) THEN <<>>
    ELSE <<SubSeq(array, i + 1, Min(i + size, Len(array)))>>
            \o chunkFrom(array, size, i + size)

chunkArray(array, size) == chunkFrom(array, size, 0)

---------------------------------------------------------------------------
(* recordMetric / recordError: the counts *)
bump(f, key, n) ==
    IF key \in DOMAIN f THEN [f EXCEPT ![key] = @ + n] ELSE f @@ (key :> n)

\* Date.now() - startTime in the service's own calls: the model's clock
\* stands still while a call runs
Elapsed == 0

PERFORMANCE_CONFIG ==
    [enableMetrics |-> TRUE, metricsInterval |-> 60000, slowQueryThreshold |-> 5000]

\* a duration that may be Infinity (minDuration before the first record)
Finite(value) == [infinite |-> FALSE, value |-> value]
Infinity      == [infinite |-> TRUE, value |-> 0]

\* Math.min(metric.minDuration, duration)
mathMin(minDuration, duration) ==
    IF minDuration.infinite THEN Finite(duration)
    ELSE Finite(Min(minDuration.value, duration))

\* metric.totalDuration / metric.count: a quotient, Infinity for n / 0 with
\* n > 0, NaN for 0 / 0
divide(totalDuration, count) ==
    IF count # 0 THEN [num |-> totalDuration, den |-> count]
    ELSE IF totalDuration # 0 THEN Infinity
    ELSE [isNaN |-> TRUE, value |-> 0]

\* the metric of an operation recorded for the first time
newMetric ==
    [count |-> 0, totalDuration |-> 0, avgDuration |-> [num |-> 0, den |-> 1],
     minDuration |-> Infinity, maxDuration |-> 0, slowQueries |-> 0]

slowIncrement_AtThreshold(duration) ==
    IF duration >= PERFORMANCE_CONFIG.slowQueryThreshold THEN 1 ELSE 0

\* if (duration > PERFORMANCE_CONFIG.slowQueryThreshold) metric.slowQueries++
slowIncrement(duration) ==
    IF duration > PERFORMANCE_CONFIG.slowQueryThreshold THEN 1 ELSE 0

\* (variant: the count is written from the call's own value, as a writer
\* would that had read the metric before another writer's update)
recordMetric_LastWriteWins(w, operation, duration, count) ==
    LET operations == w.metrics.operations
        metric == IF operation \in DOMAIN operations THEN operations[operation]
                  ELSE newMetric
    IN  [w EXCEPT !.metrics.operations =
                      (operation :> [metric EXCEPT !.count = count]) @@ operations,
                  !.recorded = Append(@, [kind |-> "metric",
                                          operation |-> operation,
                                          duration |-> duration,
                                          count |-> count])]

\* recordMetric(operation, duration, count)
recordMetric(w, operation, duration, count) ==
    LET operations == w.metrics.operations
        metric == IF operation \in DOMAIN operations THEN operations[operation]
                  ELSE newMetric
        updated ==
            [count         |-> metric.count + count,
             totalDuration |-> metric.totalDuration + duration,
             avgDuration   |-> divide(metric.totalDuration + duration,
                                      metric.count + count),
             minDuration   |-> mathMin(metric.minDuration, duration),
             maxDuration   |-> Max(metric.maxDuration, duration),
             slowQueries   |-> metric.slowQueries + slowIncrement(duration)]
    IN  IF ~PERFORMANCE_CONFIG.enableMetrics THEN w
        ELSE [w EXCEPT !.metrics.operations = (operation :> updated) @@ operations,
                       !.recorded = Append(@, [kind |-> "metric",
                                               operation |-> operation,
                                               duration |-> duration,
                                               count |-> count])]

\* recordError(operation, error, duration): errorMetric.count++
recordError(w, operation) ==
    [w EXCEPT !.metrics.errors = bump(@, operation, 1),
              !.recorded = Append(@, [kind |-> "error", operation |-> operation,
                                      duration |-> Elapsed, count |-> 1])]

---------------------------------------------------------------------------
(* processAndUpsertDigestContent: the call's frame, and its continuation   *)
(* after `await this.upsertVectors(vectors, namespace)`                    *)
IdleProcess ==
    [pc          |-> "idle",
     content     |-> <<>>,
     metadata    |-> EmptyMap,
     namespace   |-> "",
     chunks      |-> <<>>,       \* processDigestContent's chunks
     vectors     |-> <<>>,       \* processDigestContent's result
     vectorCount |-> -1,         \* the returned vectorCount
     error       |-> NoError]

\* processAndUpsertDigestContent's catch block
processThrows(w, error) ==
    [recordError(w, "process_and_upsert_digest")
        EXCEPT !.proc.pc = "rejected", !.proc.error = error]

\* the caller of upsertVectors, if any, runs when upsertVectors has settled
upsertAwaited(w) ==
    IF w.proc.pc # "upserting" THEN w
    ELSE IF w.up.pc = "resolved"
    THEN [recordMetric(w, "process_and_upsert_digest", Elapsed, Len(w.proc.vectors))
             EXCEPT !.proc.pc = "resolved",
                    !.proc.vectorCount = Len(w.proc.vectors)]
    ELSE IF w.up.pc = "rejected" THEN processThrows(w, w.up.error)
    ELSE w

---------------------------------------------------------------------------
(* upsertVectors, batchUpsertVectors, upsertSingleBatch *)
IdleUpsert ==
    [pc        |-> "idle",
     vectors   |-> <<>>,
     namespace |-> "",
     batches   |-> <<>>,
     i         |-> 0,          \* the batch group awaited: batches i .. i+maxConcurrentBatches-1
     results   |-> <<>>,       \* batchUpsertVectors' results
     response  |-> NoResult,   \* the single upsert's response
     error     |-> NoError]

\* upsertVectors' catch block: recordError('upsert', ...); throw error
upsertThrows(w, error) ==
    upsertAwaited([recordError(w, "upsert") EXCEPT !.up.pc = "rejected",
                                                   !.up.error = error])

\* the group of batches starting at w.up.i: upsertSingleBatch is called for
\* each batch in order, and each call issues its first store request at once
RECURSIVE dispatchFrom(_, _, _)
dispatchFrom(w, j, end) ==
    IF j >= end THEN w
    ELSE dispatchFrom(
             startRetry(w, BatchTask(j),
                        UpsertRequest(w.up.batches[j + 1], w.up.namespace)),
             j + 1, end)

groupEnd(w) ==
    Min(w.up.i + BATCH_CONFIG.maxConcurrentBatches, Len(w.up.batches))

dispatchGroup(w) == dispatchFrom(w, w.up.i, groupEnd(w))

\* batchUpsertVectors(vectors, namespace) up to its first await
batchUpsertVectors(w) ==
    dispatchGroup([w EXCEPT !.up.pc = "batch",
                            !.up.batches = chunkArray(w.up.vectors,
                                                      BATCH_CONFIG.maxBatchSize),
                            !.up.i = 0])

\* upsertVectors(vectors, namespace) up to its first await
upsertVectors(w, vectors, namespace) ==
    LET w0 == [w EXCEPT !.up = [IdleUpsert EXCEPT !.vectors = vectors,
                                                  !.namespace = namespace]]
        v  == validateVectors(vectors)
    IN  IF v # Ok THEN upsertThrows(w0, v)
        ELSE IF Len(vectors) > BATCH_CONFIG.maxBatchSize
        THEN batchUpsertVectors(w0)
        ELSE startRetry([w0 EXCEPT !.up.pc = "single"], UpsertTask,
                        UpsertRequest(vectors, namespace))

\* upsertVectors after the single upsert's executeWithRetry has settled
upsertSingleSettled(w) ==
    LET s == w.rt[UpsertTask]
    IN  IF s.pc = "resolved"
        THEN upsertAwaited([recordMetric(w, "upsert", Elapsed, Len(w.up.vectors))
                               EXCEPT !.up.pc = "resolved", !.up.response = s.result])
        ELSE upsertThrows(w, s.lastError)

\* (variant: the group is awaited until every batch has settled, and a batch
\* that was rejected counts as done)
batchSettled_AllSettled(w, t) ==
    LET group   == w.up.i .. (groupEnd(w) - 1)
        results == w.up.results
                     \o [k \in 1..Cardinality(group) |->
                            w.rt[BatchTask(w.up.i + k - 1)].result]
        next    == w.up.i + BATCH_CONFIG.maxConcurrentBatches
    IN  IF w.up.pc # "batch" THEN w
        ELSE IF \E j \in group : w.rt[BatchTask(j)].pc \notin {"resolved", "rejected"}
        THEN w
        ELSE IF next < Len(w.up.batches)
        THEN dispatchGroup([w EXCEPT !.up.results = results, !.up.i = next])
        ELSE upsertAwaited([recordMetric(w, "batch_upsert", Elapsed, Len(w.up.vectors))
                               EXCEPT !.up.pc = "resolved", !.up.results = results])

\* batchUpsertVectors after batch task t has settled: Promise.all rejects with
\* the first rejection and resolves when every batch of the group has resolved
batchSettled(w, t) ==
    LET group   == w.up.i .. (groupEnd(w) - 1)
        results == w.up.results
                     \o [k \in 1..Cardinality(group) |->
                            w.rt[BatchTask(w.up.i + k - 1)].result]
        next    == w.up.i + BATCH_CONFIG.maxConcurrentBatches
    IN  IF w.up.pc # "batch" THEN w                 \* nobody awaits the task any more
        ELSE IF w.rt[t].pc = "rejected"
        THEN upsertThrows(recordError(w, "batch_upsert"), w.rt[t].lastError)
        ELSE IF \E j \in group : w.rt[BatchTask(j)].pc # "resolved" THEN w
        ELSE IF next < Len(w.up.batches)
        THEN dispatchGroup([w EXCEPT !.up.results = results, !.up.i = next])
        ELSE upsertAwaited([recordMetric(w, "batch_upsert", Elapsed, Len(w.up.vectors))
                               EXCEPT !.up.pc = "resolved", !.up.results = results])

---------------------------------------------------------------------------
(* Text.  A string is the sequence of its characters.                      *)
Terminators == {".", "!", "?"}      \* the class [.!?]
Whitespace  == {" "}

RECURSIVE trimStart(_)
trimStart(s) ==
    IF s # <<>> /\ Head(s) \in Whitespace THEN trimStart(Tail(s)) ELSE s

RECURSIVE trimEnd(_)
trimEnd(s) ==
    IF s # <<>> /\ s[Len(s)] \in Whitespace
    THEN trimEnd(SubSeq(s, 1, Len(s) - 1)) ELSE s

\* String.prototype.trim
trim(s) == trimEnd(trimStart(s))

\* content.split(/[.!?]+/) from position i on: cur is the piece being read,
\* inSep says that the previous character belonged to a separator
RECURSIVE splitFrom(_, _, _, _)
splitFrom(s, i, cur, inSep) ==
    IF i > Len(s) THEN <<cur>>
    ELSE IF s[i] \in Terminators
    THEN IF inSep THEN splitFrom(s, i + 1, cur, TRUE)
         ELSE <<cur>> \o splitFrom(s, i + 1, <<>>, TRUE)
    ELSE splitFrom(s, i + 1, Append(cur, s[i]), FALSE)

splitSentences(content) == splitFrom(content, 1, <<>>, FALSE)

\* if (currentChunk.trim()) chunks.push(currentChunk.trim())
pushChunk(chunks, currentChunk) ==
    IF trim(currentChunk) # <<>> THEN Append(chunks, trim(currentChunk)) ELSE chunks

RECURSIVE packSentences_LoseOverflow(_, _, _, _, _)
packSentences_LoseOverflow(sentences, k, chunks, currentChunk, maxChunkSize) ==
    IF k > Len(sentences) THEN pushChunk(chunks, currentChunk)
    ELSE LET trimmedSentence == trim(sentences[k])
         IN  IF trimmedSentence = <<>>
             THEN packSentences_LoseOverflow(sentences, k + 1, chunks, currentChunk,
                                             maxChunkSize)
             ELSE IF Len(currentChunk) + Len(trimmedSentence) > maxChunkSize
             THEN packSentences_LoseOverflow(sentences, k + 1,
                                             pushChunk(chunks, currentChunk),
                                             <<>>, maxChunkSize)
             ELSE packSentences_LoseOverflow(sentences, k + 1, chunks,
                                currentChunk
                                  \o (IF currentChunk # <<>> THEN <<".", " ">> ELSE <<>>)
                                  \o trimmedSentence,
                                maxChunkSize)

\* the loop of chunkContentForEmbedding over sentences[k..], and the final push
RECURSIVE packSentences(_, _, _, _, _)
packSentences(sentences, k, chunks, currentChunk, maxChunkSize) ==
    IF k > Len(sentences) THEN pushChunk(chunks, currentChunk)
    ELSE LET trimmedSentence == trim(sentences[k])
         IN  IF trimmedSentence = <<>>
             THEN packSentences(sentences, k + 1, chunks, currentChunk, maxChunkSize)
             ELSE IF Len(currentChunk) + Len(trimmedSentence) > maxChunkSize
             THEN packSentences(sentences, k + 1, pushChunk(chunks, currentChunk),
                                trimmedSentence, maxChunkSize)
             ELSE packSentences(sentences, k + 1, chunks,
                                currentChunk
                                  \o (IF currentChunk # <<>> THEN <<".", " ">> ELSE <<>>)
                                  \o trimmedSentence,
                                maxChunkSize)

chunkContentForEmbedding_AlwaysPack(content, maxChunkSize) ==
    LET chunks == packSentences(splitSentences(content), 1, <<>>, <<>>, maxChunkSize)
    IN  IF Len(chunks) > 0 THEN chunks ELSE <<content>>

\* chunkContentForEmbedding(content, maxChunkSize)
chunkContentForEmbedding(content, maxChunkSize) ==
    LET chunks == packSentences(splitSentences(content), 1, <<>>, <<>>, maxChunkSize)
    IN  IF Len(content) <= maxChunkSize THEN <<content>>
        ELSE IF Len(chunks) > 0 THEN chunks
        ELSE <<content>>

---------------------------------------------------------------------------
(* normalizePublisherName *)
PUBLISHER_CONFIG ==
    [aliases |->
        [c \in {"techcrunch", "brit+co", "mashable", "engadget", "theverge",
                "wired", "ars technica"} |->
            CASE c = "techcrunch"   -> {"tc", "tech crunch", "techcrunch.com"}
              [] c = "brit+co"      -> {"brit", "britco", "brit co", "brit-co"}
              [] c = "mashable"     -> {"mash", "mashable.com"}
              [] c = "engadget"     -> {"eng", "engadget.com"}
              [] c = "theverge"     -> {"verge", "the verge", "theverge.com"}
              [] c = "wired"        -> {"wired.com"}
              [] c = "ars technica" -> {"ars", "arstechnica", "ars-technica"}]]

\* A publisher name is a string; the code looks at its characters.  spell
\* gives the characters of the strings of the alias table and of the names
\* the digest metadata carry, and named is its inverse.
SpelledNames ==
    (DOMAIN PUBLISHER_CONFIG.aliases)
        \cup UNION {PUBLISHER_CONFIG.aliases[c] : c \in DOMAIN PUBLISHER_CONFIG.aliases}
        \cup {"TechCrunch", "Brit", "Unknown Publisher"}

spell(name) ==
    CASE name = "techcrunch" ->
           <<"t", "e", "c", "h", "c",
             "r", "u", "n", "c", "h">>
      [] name = "tc" -> <<"t", "c">>
      [] name = "tech crunch" ->
           <<"t", "e", "c", "h", " ",
             "c", "r", "u", "n", "c", "h">>
      [] name = "techcrunch.com" ->
           <<"t", "e", "c", "h", "c", "r", "u",
             "n", "c", "h", ".", "c", "o", "m">>
      [] name = "brit+co" -> <<"b", "r", "i", "t", "+", "c", "o">>
      [] name = "brit" -> <<"b", "r", "i", "t">>
      [] name = "britco" -> <<"b", "r", "i", "t", "c", "o">>
      [] name = "brit co" -> <<"b", "r", "i", "t", " ", "c", "o">>
      [] name = "brit-co" -> <<"b", "r", "i", "t", "-", "c", "o">>
      [] name = "mashable" -> <<"m", "a", "s", "h", "a", "b", "l", "e">>
      [] name = "mash" -> <<"m", "a", "s", "h">>
      [] name = "mashable.com" ->
           <<"m", "a", "s", "h", "a", "b",
             "l", "e", ".", "c", "o", "m">>
      [] name = "engadget" -> <<"e", "n", "g", "a", "d", "g", "e", "t">>
      [] name = "eng" -> <<"e", "n", "g">>
      [] name = "engadget.com" ->
           <<"e", "n", "g", "a", "d", "g",
             "e", "t", ".", "c", "o", "m">>
      [] name = "theverge" -> <<"t", "h", "e", "v", "e", "r", "g", "e">>
      [] name = "verge" -> <<"v", "e", "r", "g", "e">>
      [] name = "the verge" -> <<"t", "h", "e", " ", "v", "e", "r", "g", "e">>
      [] name = "theverge.com" ->
           <<"t", "h", "e", "v", "e", "r",
             "g", "e", ".", "c", "o", "m">>
      [] name = "wired" -> <<"w", "i", "r", "e", "d">>
      [] name = "wired.com" -> <<"w", "i", "r", "e", "d", ".", "c", "o", "m">>
      [] name = "ars technica" ->
           <<"a", "r", "s", " ", "t", "e",
             "c", "h", "n", "i", "c", "a">>
      [] name = "ars" -> <<"a", "r", "s">>
      [] name = "arstechnica" ->
           <<"a", "r", "s", "t", "e",
             "c", "h", "n", "i", "c", "a">>
      [] name = "ars-technica" ->
           <<"a", "r", "s", "-", "t", "e",
             "c", "h", "n", "i", "c", "a">>
      [] name = "TechCrunch" ->
           <<"T", "e", "c", "h", "C",
             "r", "u", "n", "c", "h">>
      [] name = "Brit" -> <<"B", "r", "i", "t">>
      [] name = "Unknown Publisher" ->
           <<"U", "n", "k", "n", "o", "w", "n", " ",
             "P", "u", "b", "l", "i", "s", "h", "e", "r">>

named(characters) == CHOOSE name \in SpelledNames : spell(name) = characters

\* String.prototype.toLowerCase, character by character
UpperCase ==
    <<"A", "B", "C", "D", "E", "F", "G", "H", "I", "J", "K", "L", "M",
      "N", "O", "P", "Q", "R", "S", "T", "U", "V", "W", "X", "Y", "Z">>
LowerCase ==
    <<"a", "b", "c", "d", "e", "f", "g", "h", "i", "j", "k", "l", "m",
      "n", "o", "p", "q", "r", "s", "t", "u", "v", "w", "x", "y", "z">>

lowerOf(c) ==
    IF \E i \in 1..Len(UpperCase) : UpperCase[i] = c
    THEN LowerCase[CHOOSE i \in 1..Len(UpperCase) : UpperCase[i] = c]
    ELSE c

toLowerCase_AsGiven(s) == s

toLowerCase(s) == [i \in 1..Len(s) |-> lowerOf(s[i])]

\* normalizePublisherName(publisherName), on the characters of the name
normalizePublisherName(publisherName) ==
    LET normalized == trim(toLowerCase(publisherName))
        aliases    == PUBLISHER_CONFIG.aliases
    IN  IF \E canonical \in DOMAIN aliases : spell(canonical) = normalized
        THEN normalized
        ELSE IF \E canonical \in DOMAIN aliases :
                   \E alias \in aliases[canonical] : spell(alias) = normalized
        THEN spell(CHOOSE canonical \in DOMAIN aliases :
                       \E alias \in aliases[canonical] : spell(alias) = normalized)
        ELSE publisherName

---------------------------------------------------------------------------
(* generateEmbeddings, processDigestContent, processAndUpsertDigestContent *)

\* the answer of the embeddings API to `input`: one item per text, in the
\* order of the input, each with an embedding of the model's dimension
\* (an embedding is kept as the text it embeds and its length)
embeddingsResponse(input) ==
    [data |-> [i \in 1..Len(input) |->
                  [index     |-> i - 1,
                   embedding |-> [of |-> input[i],
                                  length |-> PINECONE_CONFIG.dimensions]]]]

\* response.data.map(item => item.embedding)
responseEmbeddings(response) ==
    [i \in 1..Len(response.data) |-> response.data[i].embedding]

\* (variant: the embeddings are returned as a sequence whatever was passed)
shapeOf_AlwaysSequence(isArray, embeddings) ==
    [shape |-> "sequence", value |-> embeddings]

\* return Array.isArray(texts) ? embeddings : embeddings[0]
shapeOf(isArray, embeddings) ==
    IF isArray THEN [shape |-> "sequence", value |-> embeddings]
    ELSE [shape |-> "vector", value |-> embeddings[1]]

\* (variant: the embeddings are returned in the reverse order)
orderOf_Reversed(embeddings) ==
    [i \in 1..Len(embeddings) |-> embeddings[Len(embeddings) + 1 - i]]

\* the order in which generateEmbeddings hands the embeddings on: as mapped
orderOf(embeddings) == embeddings

\* the generateEmbeddings call; texts is the argument, isArray tells whether
\* it was an array, calls counts the requests sent to the embeddings API
IdleGenerate ==
    [pc      |-> "idle",
     service |-> "",
     texts   |-> <<>>,
     isArray |-> FALSE,
     calls   |-> 0,
     result  |-> [shape |-> "none", value |-> <<>>],
     tokens  |-> EmptyMap,       \* OpenAIService: const tokens = response.usage
     error   |-> NoError]

\* const textArray = Array.isArray(texts) ? texts : [texts]
textArrayOf(texts, isArray) == IF isArray THEN texts ELSE <<texts>>

\* PineconeService.generateEmbeddings(texts) up to its await
generateEmbeddings(w, texts, isArray) ==
    startRetry([w EXCEPT !.gen = [IdleGenerate EXCEPT !.pc = "awaiting",
                                                      !.service = "PineconeService",
                                                      !.texts = texts,
                                                      !.isArray = isArray]],
               EmbedTask, EmbedRequest(textArrayOf(texts, isArray)))

\* PineconeService.generateEmbeddings after executeWithRetry has settled
generateEmbeddingsSettled(w) ==
    LET s         == w.rt[EmbedTask]
        textArray == s.request.input
        embeddings == orderOf(responseEmbeddings(embeddingsResponse(textArray)))
    IN  IF s.pc = "resolved"
        THEN [recordMetric(w, "generate_embeddings", Elapsed, Len(textArray))
                 EXCEPT !.gen.pc = "resolved",
                        !.gen.calls = s.calls,
                        !.gen.result = shapeOf(w.gen.isArray, embeddings)]
        ELSE [recordError(w, "generate_embeddings")
                 EXCEPT !.gen.pc = "rejected",
                        !.gen.calls = s.calls,
                        !.gen.error = s.lastError]

---------------------------------------------------------------------------
(* OpenAIService.generateEmbeddings and its usage tracking *)

\* a cost: a number of 1/100000 dollars, or NaN
Cost(value) == [isNaN |-> FALSE, value |-> value]
NaN         == [isNaN |-> TRUE, value |-> 0]

addCost(a, b) == IF a.isNaN \/ b.isNaN THEN NaN ELSE Cost(a.value + b.value)

NoCost == [totalTokens |-> 0, totalCost |-> Cost(0), requestCount |-> 0]

\* response.usage of an embeddings response
EmbeddingUsage(n) == [prompt_tokens |-> n, total_tokens |-> n]

\* a response without usage (response.usage is undefined)
NoUsage == EmptyMap

\* estimateCost(tokens) with the default model: pricing['gpt-4'], 0.03 / 1000
\* per prompt token and 0.06 / 1000 per completion token; a usage without
\* completion_tokens makes the product, and the sum, NaN
estimateCost(tokens) ==
    IF "completion_tokens" \in DOMAIN tokens
    THEN Cost(tokens.prompt_tokens * 3 + tokens.completion_tokens * 6)
    ELSE NaN

trackUsage_NoRequestCount(w, tokens) ==
    [w EXCEPT !.costTracking.totalTokens = @ + tokens.total_tokens,
              !.costTracking.totalCost = addCost(@, estimateCost(tokens))]

\* trackUsage(tokens, duration)
trackUsage(w, tokens) ==
    [w EXCEPT !.costTracking.totalTokens = @ + tokens.total_tokens,
              !.costTracking.totalCost = addCost(@, estimateCost(tokens)),
              !.costTracking.requestCount = @ + 1]

\* resetCostTracking()
resetCostTracking(w) == [w EXCEPT !.costTracking = NoCost]

\* OpenAIService.generateEmbeddings(texts) up to its await: the request goes
\* to this.client.embeddings.create directly
openaiGenerateEmbeddings(w, texts, isArray) ==
    [w EXCEPT !.gen = [IdleGenerate EXCEPT !.pc = "calling",
                                           !.service = "OpenAIService",
                                           !.texts = texts,
                                           !.isArray = isArray,
                                           !.calls = 1]]

\* ... after the request has rejected, or the try block has thrown: the
\* catch block logs and rethrows
openaiEmbeddingsRejected(w, message) ==
    [w EXCEPT !.gen.pc = "rejected", !.gen.error = Error(message, 0)]

\* ... after the request has resolved with `usage`; without usage,
\* estimateCost reads tokens.prompt_tokens of undefined and throws before
\* trackUsage has changed anything
openaiEmbeddingsResolved(w, usage) ==
    LET textArray  == textArrayOf(w.gen.texts, w.gen.isArray)
        embeddings == orderOf(responseEmbeddings(embeddingsResponse(textArray)))
    IN  IF usage = NoUsage
        THEN openaiEmbeddingsRejected(w, "Cannot read properties of undefined")
        ELSE [trackUsage(w, usage)
                 EXCEPT !.gen.pc = "resolved",
                        !.gen.tokens = usage,
                        !.gen.result = shapeOf(w.gen.isArray, embeddings)]

\* (variant: total_chunks counts the chunks up to the vector's own)
digestVectors_RunningTotal(chunks, embeddings, metadata) ==
    [p \in 1..Len(chunks) |->
        [id       |-> p,
         values   |-> IF p <= Len(embeddings) THEN embeddings[p].length ELSE NoValues,
         embeds   |-> IF p <= Len(embeddings) THEN embeddings[p].of ELSE <<>>,
         metadata |-> Metadata(
             [k \in {"publisher", "content_type", "section", "content_length",
                     "chunk_index", "total_chunks", "created_at", "version"} |->
                 CASE k = "publisher"      ->
                        named(normalizePublisherName(spell(metadata["publisher"])))
                   [] k = "content_type"   -> "daily_digest"
                   [] k = "section"        -> <<"chunk_", p - 1>>
                   [] k = "content_length" -> Len(chunks[p])
                   [] k = "chunk_index"    -> p - 1
                   [] k = "total_chunks"   -> p
                   [] k = "created_at"     -> "now"
                   [] k = "version"        -> "1.0"]
             @@ metadata)]]

\* the vectors processDigestContent builds from its chunks.  The id string
\* `${normalizedPublisher}-${metadata.date}-chunk-${index}` is never empty and
\* differs from chunk to chunk: it is kept as index + 1.  values:
\* embeddings[index] is kept as the embedding's length, which validation
\* reads, and, in `embeds`, the text the embedding was made from.
digestVectors(chunks, embeddings, metadata) ==
    [p \in 1..Len(chunks) |->
        [id       |-> p,
         values   |-> IF p <= Len(embeddings) THEN embeddings[p].length ELSE NoValues,
         embeds   |-> IF p <= Len(embeddings) THEN embeddings[p].of ELSE <<>>,
         metadata |-> Metadata(
             [k \in {"publisher", "content_type", "section", "content_length",
                     "chunk_index", "total_chunks", "created_at", "version"} |->
                 CASE k = "publisher"      ->
                        named(normalizePublisherName(spell(metadata["publisher"])))
                   [] k = "content_type"   -> "daily_digest"
                   [] k = "section"        -> <<"chunk_", p - 1>>
                   [] k = "content_length" -> Len(chunks[p])
                   [] k = "chunk_index"    -> p - 1
                   [] k = "total_chunks"   -> Len(chunks)
                   [] k = "created_at"     -> "now"
                   [] k = "version"        -> "1.0"]
             @@ metadata)]]

\* processDigestContent's catch block, then its caller's
digestThrows(w, error) ==
    processThrows(recordError(w, "process_digest_content"), error)

\* generateEmbeddings(chunks) after its executeWithRetry has settled, then
\* processDigestContent's map and processAndUpsertDigestContent's upsertVectors
embeddingsSettled(w) ==
    LET s       == w.rt[EmbedTask]
        chunks  == w.proc.chunks
        vectors == digestVectors(chunks,
                       orderOf(responseEmbeddings(embeddingsResponse(s.request.input))),
                       w.proc.metadata)
        w1      == recordMetric(w, "generate_embeddings", Elapsed, Len(s.request.input))
        w2      == recordMetric(w1, "process_digest_content", Elapsed, Len(vectors))
    IN  IF s.pc = "resolved"
        THEN upsertVectors([w2 EXCEPT !.proc.pc = "upserting",
                                      !.proc.vectors = vectors],
                           vectors, w.proc.namespace)
        ELSE digestThrows(recordError(w, "generate_embeddings"), s.lastError)

\* processAndUpsertDigestContent(content, metadata, namespace) up to its first
\* await: processDigestContent up to generateEmbeddings' executeWithRetry
processAndUpsertDigestContent(w, content, metadata, namespace, maxChunkSize) ==
    LET chunks == chunkContentForEmbedding(content, maxChunkSize)
        w0     == [w EXCEPT !.proc = [IdleProcess EXCEPT !.pc = "embedding",
                                                         !.content = content,
                                                         !.metadata = metadata,
                                                         !.namespace = namespace]]
    IN  IF missingField(metadata, "publisher") \/ missingField(metadata, "date")
        THEN digestThrows(w0, Error("Publisher and date are required in metadata", -1))
        ELSE startRetry([w0 EXCEPT !.proc.chunks = chunks], EmbedTask,
                        EmbedRequest(chunks))

---------------------------------------------------------------------------
(* performHealthCheck *)
HEALTH_CONFIG ==
    [checkInterval |-> 300000, unhealthyThreshold |-> 3, healthyThreshold |-> 2]

\* the constructor's healthStatus; lastCheck is the number of the probe that
\* wrote it last (-1 for null)
InitialHealthStatus ==
    [isHealthy |-> FALSE, lastCheck |-> -1,
     consecutiveFailures |-> 0, consecutiveSuccesses |-> 0]

NoProbes == [started |-> 0, running |-> {}, log |-> <<>>]

ProbeTask(k) == <<"probe", k>>       \* getIndexStats: executeWithRetry call of probe k

\* index.describeIndexStats({describeIndexStatsRequest: {}})
StatsRequest == [api |-> "stats", vectors |-> <<>>, namespace |-> "", input |-> <<>>]

\* (variant: isHealthy falls one failure after the threshold)
onProbeFailed_PastThreshold(h, k) ==
    LET h1 == [h EXCEPT !.consecutiveSuccesses = 0,
                        !.consecutiveFailures = @ + 1,
                        !.lastCheck = k]
    IN  IF h1.consecutiveFailures > HEALTH_CONFIG.unhealthyThreshold
        THEN [h1 EXCEPT !.isHealthy = FALSE] ELSE h1

\* (variant: a failed probe leaves consecutiveSuccesses as it is)
onProbeFailed_NoReset(h, k) ==
    LET h1 == [h EXCEPT !.consecutiveFailures = @ + 1, !.lastCheck = k]
    IN  IF h1.consecutiveFailures >= HEALTH_CONFIG.unhealthyThreshold
        THEN [h1 EXCEPT !.isHealthy = FALSE] ELSE h1

\* the catch block of performHealthCheck
onProbeFailed(h, k) ==
    LET h1 == [h EXCEPT !.consecutiveSuccesses = 0,
                        !.consecutiveFailures = @ + 1,
                        !.lastCheck = k]
    IN  IF h1.consecutiveFailures >= HEALTH_CONFIG.unhealthyThreshold
        THEN [h1 EXCEPT !.isHealthy = FALSE] ELSE h1

\* (variant: a passed probe leaves consecutiveFailures as it is)
onProbePassed_NoReset(h, k) ==
    LET h1 == [h EXCEPT !.consecutiveSuccesses = @ + 1, !.lastCheck = k]
    IN  IF h1.consecutiveSuccesses >= HEALTH_CONFIG.healthyThreshold
        THEN [h1 EXCEPT !.isHealthy = TRUE] ELSE h1

\* the try block of performHealthCheck after the race was won by getIndexStats
onProbePassed(h, k) ==
    LET h1 == [h EXCEPT !.consecutiveFailures = 0,
                        !.consecutiveSuccesses = @ + 1,
                        !.lastCheck = k]
    IN  IF h1.consecutiveSuccesses >= HEALTH_CONFIG.healthyThreshold
        THEN [h1 EXCEPT !.isHealthy = TRUE] ELSE h1

\* performHealthCheck() up to its await: getIndexStats() calls executeWithRetry
performHealthCheck(w) ==
    LET k == w.probes.started
    IN  startRetry([w EXCEPT !.probes.started = k + 1,
                             !.probes.running = @ \cup {k}],
                   ProbeTask(k), StatsRequest)

\* the race of probe k is decided; a probe that is no longer awaited (its
\* timeout came first) ignores the outcome of getIndexStats
probeSettled(w, k, passed) ==
    IF k \notin w.probes.running THEN w
    ELSE [w EXCEPT !.healthStatus = IF passed THEN onProbePassed(@, k)
                                              ELSE onProbeFailed(@, k),
                   !.probes.running = @ \ {k},
                   !.probes.log = Append(@, IF passed THEN "pass" ELSE "fail")]

\* the executeWithRetry call t is no longer followed
forget(w, t) == [w EXCEPT !.rt = [x \in (DOMAIN w.rt) \ {t} |-> w.rt[x]]]

\* getIndexStats after its executeWithRetry has settled
getIndexStatsSettled(w, t) ==
    forget(probeSettled(w, t[2], w.rt[t].pc = "resolved"), t)

\* the probe's own timeout wins the race: the probe has failed, and what
\* becomes of its getIndexStats call changes nothing in the service
probeTimedOut(w, k) == forget(probeSettled(w, k, FALSE), ProbeTask(k))

---------------------------------------------------------------------------
(* queryVectors, deleteVectors, fetchVectors *)
StoreOperations == {"query", "delete", "fetch"}

StoreTask(operation) == <<operation, 0>>

\* the request of index.query / index.delete1 / index.fetch; `found` is the
\* number of matches (vectors) the store answers with if it answers
StoreRequest(operation, ids, found) ==
    [api |-> operation, vectors |-> <<>>, namespace |-> NAMESPACE_CONFIG.daily_digests,
     input |-> ids, found |-> found]

\* the count passed to recordMetric: response.matches?.length || 0,
\* ids.length, Object.keys(response.vectors || {}).length
operationCount(request) ==
    IF request.api = "delete" THEN Len(request.input) ELSE request.found

QUERY_CONFIG ==
    [topK |-> 10, includeMetadata |-> TRUE, includeValues |-> FALSE,
     filter |-> EmptyMap, namespace |-> NAMESPACE_CONFIG.daily_digests]

\* { ...a, ...b }: the keys of both, b's value where both have the key
spread(a, b) == b @@ a

\* options.filter as the spread sees it: nothing when options has no filter
filterOf(options) == IF "filter" \in DOMAIN options THEN options.filter ELSE EmptyMap

\* the queryRequest that queryVectors(vector, options) hands to index.query
queryRequestOf(vector, options) ==
    LET queryOptions == spread(QUERY_CONFIG, options)
    IN  [vector          |-> vector,
         topK            |-> queryOptions.topK,
         includeMetadata |-> queryOptions.includeMetadata,
         includeValues   |-> queryOptions.includeValues,
         namespace       |-> queryOptions.namespace,
         filter          |-> queryOptions.filter]

\* queryVectors(vector, options) up to the first await
queryVectors(w, vector, options, found) ==
    startRetry(w, StoreTask("query"),
               [api |-> "query", vectors |-> <<>>,
                namespace |-> queryRequestOf(vector, options).namespace,
                input |-> <<>>, found |-> found,
                queryRequest |-> queryRequestOf(vector, options)])

\* queryVectors / deleteVectors / fetchVectors up to the first await
storeOperation(w, operation, ids, found) ==
    IF operation = "query" THEN queryVectors(w, "vector", EmptyMap, found)
    ELSE startRetry(w, StoreTask(operation), StoreRequest(operation, ids, found))

\* the search call: its name, its arguments, and how it has settled
IdleSearch == [pc |-> "idle", fn |-> "", args |-> EmptyMap]

\* searchPublisherContent(query, publisherName, options) up to the await
searchPublisherContent(w, query, publisherName, options, found) ==
    LET normalizedPublisher == normalizePublisherName(publisherName)
        searchOptions ==
            spread(options,
                   [filter |-> spread([publisher |-> normalizedPublisher],
                                      filterOf(options))])
    IN  queryVectors([w EXCEPT !.search =
                         [pc |-> "awaiting", fn |-> "searchPublisherContent",
                          args |-> [query |-> query, publisherName |-> publisherName,
                                    options |-> options]]],
                     query, searchOptions, found)

\* the value { $gte: startDate, $lte: endDate }
dateRange(startDate, endDate) == ("$gte" :> startDate) @@ ("$lte" :> endDate)

\* searchContentByDateRange(query, startDate, endDate, options) up to the await
searchContentByDateRange(w, query, startDate, endDate, options, found) ==
    LET searchOptions ==
            spread(options,
                   [filter |-> spread([date |-> dateRange(startDate, endDate)],
                                      filterOf(options))])
    IN  queryVectors([w EXCEPT !.search =
                         [pc |-> "awaiting", fn |-> "searchContentByDateRange",
                          args |-> [query |-> query, startDate |-> startDate,
                                    endDate |-> endDate, options |-> options]]],
                     query, searchOptions, found)

\* the search helper, if it awaits queryVectors, settles as queryVectors did
searchAwaited(w, t) ==
    IF w.search.pc = "awaiting" /\ t = StoreTask("query")
    THEN [w EXCEPT !.search.pc = w.rt[t].pc]
    ELSE w

\* queryVectors / deleteVectors / fetchVectors called while earlier calls of
\* the same operation may be in flight: the k-th such call is <<operation, k>>
concurrentOperation(w, operation, ids, found) ==
    LET k == 1 + Cardinality({t \in DOMAIN w.rt : t[1] = operation})
    IN  startRetry(w, <<operation, k>>, StoreRequest(operation, ids, found))

\* ... and after executeWithRetry has settled
storeOperationSettled(w, t) ==
    searchAwaited(IF w.rt[t].pc = "resolved"
                  THEN recordMetric(w, t[1], Elapsed, operationCount(w.rt[t].request))
                  ELSE recordError(w, t[1]),
                  t)

\* the code that awaits task t
resume(w, t) ==
    IF t = UpsertTask THEN upsertSingleSettled(w)
    ELSE IF t[1] \in StoreOperations THEN storeOperationSettled(w, t)
    ELSE IF t[1] = "probe" THEN getIndexStatsSettled(w, t)
    ELSE IF t = EmbedTask
    THEN IF w.proc.pc = "embedding" THEN embeddingsSettled(w)
         ELSE generateEmbeddingsSettled(w)
    ELSE IF t[1] = "batch" THEN batchSettled(w, t)
    ELSE w

\* task t moves to retry state s; a new attempt issues the call again, and
\* the code awaiting the task runs when it has settled
step(w, t, s) ==
    LET w1 == [w EXCEPT !.rt[t] = s]
        w2 == IF s.calls > w.rt[t].calls THEN invoke(w1, t, s.request) ELSE w1
    IN  IF s.pc \in {"resolved", "rejected"} THEN resume(w2, t) ELSE w2

---------------------------------------------------------------------------
(* Events *)

\* executeWithRetry(operation), called directly
CallExecuteWithRetry ==
    /\ DOMAIN rt = {}
    /\ up.pc = "idle"
    /\ proc.pc = "idle"
    /\ Commit(startRetry(World, OpTask, OpRequest))

\* the call of the current attempt resolves
OpResolves(t) ==
    /\ Pending(t)
    /\ Commit(step(World, t, onAttemptResolved(rt[t], "success")))

\* the call of the current attempt rejects (or throws)
OpRejects(t) ==
    /\ Pending(t)
    /\ \E m \in rejectionsOf(rt[t].request.api) :
          Commit(step(World, t, onAttemptFailed(rt[t], m)))

\* (variant: the timeout is raised outside the retry loop)
OpTimesOut_NoRetry(t) ==
    /\ Pending(t)
    /\ Commit(step(World, t,
                   [rt[t] EXCEPT !.pc = "rejected",
                                 !.lastError = Error(TimeoutError, rt[t].attempt),
                                 !.outcomes = Append(@, TimeoutError)]))

\* the call has not settled when timeoutPromise(timeoutMs) rejects
OpTimesOut(t) ==
    /\ Pending(t)
    /\ Commit(step(World, t, onAttemptFailed(rt[t], TimeoutError)))

\* a call that lost the race against its timeout settles: nobody awaits it
CallSettlesLate(t) ==
    /\ t \in DOMAIN rt
    /\ rt[t].open > (IF rt[t].pc = "pending" THEN 1 ELSE 0)
    /\ Commit([World EXCEPT !.rt[t].open = @ - 1])

\* this.sleep(delay) resolves
SleepDone(t) ==
    /\ Sleeping(t)
    /\ Commit(step(World, t, onSleepDone(rt[t])))

---------------------------------------------------------------------------
(* initialize.  A call is at the client call it awaits (pc), and keeps the *)
(* steps it has completed and, once it has rejected, the step that failed. *)
(* this.client is the number of the call that made it (0 for null), and    *)
(* this.index the client the handle was obtained from.                     *)

\* the constructor's client, index and isInitialized; no call, no timer
NewService ==
    [isInitialized |-> FALSE, client |-> 0, index |-> 0, calls |-> <<>>,
     healthTimers |-> 0, metricsTimers |-> 0]

NotReadyError == Error("Index did not become ready within timeout period", -1)

\* what initialize rejects with when `stage` fails: the client's error, or
\* waitForIndexReady's own
ErrorOf(stage) == IF stage = "ready" THEN NotReadyError ELSE Error(stage, -1)

\* initialize() up to `await this.client.init(...)`
initialize(w) ==
    LET k == Len(w.service.calls) + 1
    IN  [w EXCEPT !.service.client = k,
                  !.service.calls = Append(@, [pc |-> "init", done |-> <<>>,
                                               failed |-> "", error |-> NoError,
                                               polls |-> 0])]

\* the catch blocks of createIndex, ensureIndex and initialize: log and rethrow
initializeRejects(w, k, stage) ==
    [w EXCEPT !.service.calls[k].pc = "rejected",
              !.service.calls[k].failed = stage,
              !.service.calls[k].error = ErrorOf(stage)]

\* startHealthMonitoring()
startHealthMonitoring(w) ==
    IF HEALTH_CONFIG.checkInterval > 0
    THEN [w EXCEPT !.service.healthTimers = @ + 1]
    ELSE w

\* startMetricsCollection()
startMetricsCollection(w) ==
    IF PERFORMANCE_CONFIG.enableMetrics /\ PERFORMANCE_CONFIG.metricsInterval > 0
    THEN [w EXCEPT !.service.metricsTimers = @ + 1]
    ELSE w

\* (variant: the flag is set before the index handle is asked for)
initializeCompletes_FlagFirst(w, k, handle) ==
    LET flagged == [w EXCEPT !.service.isInitialized = TRUE]
    IN  IF ~handle THEN initializeRejects(flagged, k, "Index")
        ELSE LET started == startMetricsCollection(startHealthMonitoring(
                                [flagged EXCEPT !.service.index = w.service.client]))
             IN  [started EXCEPT !.service.calls[k].pc = "resolved",
                                 !.service.calls[k].done = @ \o <<"Index", "monitors">>]

\* initialize() after `await this.ensureIndex()`; handle is FALSE when
\* this.client.Index(...) throws
initializeCompletes(w, k, handle) ==
    IF ~handle THEN initializeRejects(w, k, "Index")
    ELSE LET started == startMetricsCollection(startHealthMonitoring(
                            [w EXCEPT !.service.index = w.service.client]))
         IN  [started EXCEPT !.service.isInitialized = TRUE,
                             !.service.calls[k].pc = "resolved",
                             !.service.calls[k].done = @ \o <<"Index", "monitors">>]

\* the client call that initialize call k awaits resolves; answer is whether
\* listIndexes includes the index, or whether describeIndex reports it ready
initializeStepResolved(w, k, answer, handle) ==
    LET call == w.service.calls[k]
        at(pc, stage) == [w EXCEPT !.service.calls[k].pc = pc,
                                  !.service.calls[k].done = Append(@, stage)]
    IN  CASE call.pc = "init"          -> at("listIndexes", "init")
          [] call.pc = "listIndexes"   ->
                 IF answer THEN at("verify", "listed") ELSE at("createIndex", "listed")
          [] call.pc = "createIndex"   -> at("describeIndex", "created")
          [] call.pc = "describeIndex" ->
                 IF answer THEN initializeCompletes(at("ready", "ready"), k, handle)
                 ELSE [w EXCEPT !.service.calls[k].pc = "sleep"]
          [] call.pc = "verify"        ->
                 initializeCompletes(at("verified", "found"), k, handle)

\* ... or rejects; waitForIndexReady catches the error, warns and sleeps
initializeStepRejected(w, k) ==
    LET call == w.service.calls[k]
    IN  IF call.pc = "describeIndex"
        THEN [w EXCEPT !.service.calls[k].pc = "sleep"]
        ELSE initializeRejects(w, k, call.pc)

\* waitForIndexReady's sleep(checkInterval) is over; expired is whether
\* maxWaitTime has passed since the wait began
waitSlept(w, k, expired) ==
    IF expired THEN initializeRejects(w, k, "ready")
    ELSE [w EXCEPT !.service.calls[k].pc = "describeIndex",
                   !.service.calls[k].polls = @ + 1]

\* a configuration for the runs that make no network call
DefaultConfig ==
    [error |-> [maxRetries |-> 1, backoffMultiplier |-> 2,
                initialDelay |-> 1, maxDelay |-> MaxMaxDelay],
     batch |-> [maxBatchSize |-> MaxBatchSize,
                maxConcurrentBatches |-> MaxConcurrentBatches]]

\* no helper is being called
NoCall == [pc |-> "none", fn |-> "", args |-> EmptyMap, result |-> <<>>]

\* a helper about to be called with args, and the same call once returned
calling(fn, args) == [pc |-> "called", fn |-> fn, args |-> args, result |-> <<>>]
returning(call, result) == [call EXCEPT !.pc = "returned", !.result = result]

\* the service as constructed, apart from `pure`
Constructed ==
    /\ rt = EmptyMap
    /\ storeCalls = EmptyBag
    /\ up = IdleUpsert
    /\ metrics = [operations |-> EmptyMap, errors |-> EmptyMap]
    /\ proc = IdleProcess
    /\ healthStatus = InitialHealthStatus
    /\ probes = NoProbes
    /\ gen = IdleGenerate
    /\ costTracking = NoCost
    /\ search = IdleSearch
    /\ recorded = <<>>
    /\ service = NewService

Idle == Constructed /\ pure = NoCall

InitRetry ==
    /\ config \in [error : ErrorConfigs,
                    batch : {[maxBatchSize |-> 1, maxConcurrentBatches |-> 1]}]
    /\ Idle

NextRetry ==
    \/ CallExecuteWithRetry
    \/ \E t \in DOMAIN rt : OpResolves(t)
    \/ \E t \in DOMAIN rt : OpRejects(t)
    \/ \E t \in DOMAIN rt : OpTimesOut(t)
    \/ \E t \in DOMAIN rt : SleepDone(t)

SpecRetry == InitRetry /\ [][NextRetry]_vars

---------------------------------------------------------------------------
(* Inputs of upsertVectors.  A vector's id is its position in the list     *)
(* (ids are then distinct), or 0 when the vector has no id.                *)
RequiredFields == {"publisher", "date", "content_type", "source"}

AllRequired == [f \in RequiredFields |-> "x"]

MetadataInputs ==
    {NoMetadata,
     Metadata(EmptyMap),                                      \* metadata: {}
     Metadata(AllRequired),
     Metadata(AllRequired @@ ("section" :> "x")),             \* optional schema field
     Metadata(AllRequired @@ ("chunk_index" :> "x")),         \* field outside the schema
     Metadata([AllRequired EXCEPT !["source"] = ""])}         \* present but empty
    \cup {Metadata([f \in RequiredFields \ {g} |-> "x"]) : g \in RequiredFields}

ValidKind    == [hasId |-> TRUE, values |-> 1536, metadata |-> Metadata(AllRequired)]
WrongDimKind == [hasId |-> TRUE, values |-> 768,  metadata |-> Metadata(AllRequired)]
NoSourceKind == [hasId |-> TRUE, values |-> 1536,
                 metadata |-> Metadata([f \in RequiredFields \ {"source"} |-> "x"])]

\* the kinds that fill the lists of any length, and every combination of
\* id, values and metadata for the lists of one vector
ListKinds   == {ValidKind, WrongDimKind, NoSourceKind}
DetailKinds == [hasId : BOOLEAN, values : {NoValues, 768, 1536, 1537},
                metadata : MetadataInputs]

KindLists(kinds, n) == UNION {[1..m -> kinds] : m \in 0..n}

mkVectors(kinds) ==
    [p \in 1..Len(kinds) |->
        [id       |-> IF kinds[p].hasId THEN p ELSE 0,
         values   |-> kinds[p].values,
         metadata |-> kinds[p].metadata]]

VectorLists ==
    {mkVectors(ks) : ks \in KindLists(ListKinds, MaxVectors)
                          \cup KindLists(DetailKinds, 1)}

Namespaces == {NAMESPACE_CONFIG.daily_digests, "custom-namespace"}

\* upsertVectors(vectors, namespace)
CallUpsertVectors ==
    /\ DOMAIN rt = {}
    /\ up.pc = "idle"
    /\ proc.pc = "idle"
    /\ \E vectors \in VectorLists, namespace \in Namespaces :
          Commit(upsertVectors(World, vectors, namespace))

\* the retry policy of the upsert runs: the default multiplier, 1..MaxStoreRetries attempts
InitUpsert ==
    /\ config \in [error : [maxRetries : 1..MaxStoreRetries, backoffMultiplier : {2},
                             initialDelay : {1}, maxDelay : {MaxMaxDelay}],
                    batch : BatchConfigs]
    /\ Idle

NextUpsert ==
    \/ CallUpsertVectors
    \/ \E t \in DOMAIN rt : OpResolves(t)
    \/ \E t \in DOMAIN rt : OpRejects(t)
    \/ \E t \in DOMAIN rt : OpTimesOut(t)
    \/ \E t \in DOMAIN rt : SleepDone(t)

SpecUpsert == InitUpsert /\ [][NextUpsert]_vars

---------------------------------------------------------------------------
(* Batched upserts: lists of valid vectors, and timed-out calls that settle *)
(* after the executor has stopped waiting for them                          *)
ValidLists == {mkVectors(ks) : ks \in KindLists({ValidKind}, MaxVectors)}

\* upsertVectors(vectors), every vector valid
CallUpsertValidVectors ==
    /\ DOMAIN rt = {}
    /\ up.pc = "idle"
    /\ proc.pc = "idle"
    /\ \E vectors \in ValidLists :
          Commit(upsertVectors(World, vectors, NAMESPACE_CONFIG.daily_digests))

InitBatch ==
    /\ config \in [error : [maxRetries : 1..MaxStoreRetries, backoffMultiplier : {2},
                             initialDelay : {1}, maxDelay : {MaxMaxDelay}],
                    batch : BatchConfigs]
    /\ Idle

NextBatch ==
    \/ CallUpsertValidVectors
    \/ \E t \in DOMAIN rt : OpResolves(t)
    \/ \E t \in DOMAIN rt : OpRejects(t)
    \/ \E t \in DOMAIN rt : OpTimesOut(t)
    \/ \E t \in DOMAIN rt : SleepDone(t)
    \/ \E t \in DOMAIN rt : CallSettlesLate(t)

SpecBatch == InitBatch /\ [][NextBatch]_vars

---------------------------------------------------------------------------
(* The four store operations, one call per run *)

\* queryVectors(vector, options) / deleteVectors(ids) / fetchVectors(ids)
CallStoreOperation ==
    /\ DOMAIN rt = {}
    /\ up.pc = "idle"
    /\ proc.pc = "idle"
    /\ \E operation \in StoreOperations, n \in 0..MaxIds :
          \E found \in 0..n :
             Commit(storeOperation(World, operation, [i \in 1..n |-> i], found))

InitOperations ==
    /\ config \in [error : [maxRetries : 1..MaxStoreRetries, backoffMultiplier : {2},
                             initialDelay : {1}, maxDelay : {MaxMaxDelay}],
                    batch : BatchConfigs]
    /\ Idle

NextOperations ==
    \/ CallStoreOperation
    \/ CallUpsertValidVectors
    \/ \E t \in DOMAIN rt : OpResolves(t)
    \/ \E t \in DOMAIN rt : OpRejects(t)
    \/ \E t \in DOMAIN rt : OpTimesOut(t)
    \/ \E t \in DOMAIN rt : SleepDone(t)

SpecOperations == InitOperations /\ [][NextOperations]_vars

---------------------------------------------------------------------------
(* The search helpers, one call per run *)

restrict(f, keys) == [k \in keys |-> f[k]]

\* options.filter: any of a publisher, a date range and a category
OptionFilters ==
    {restrict([publisher |-> spell("wired"),
               date      |-> dateRange("2020-01-01", "2020-12-31"),
               category  |-> "technology"], keys) :
        keys \in SUBSET {"publisher", "date", "category"}}

\* options: any of topK, namespace and filter
SearchOptions ==
    {restrict([topK |-> 5, namespace |-> "custom", filter |-> filter], keys) :
        filter \in OptionFilters, keys \in SUBSET {"topK", "namespace", "filter"}}

PublisherNames == {spell("Brit"), spell("wired"), spell("Unknown Publisher")}

CallSearchPublisherContent ==
    /\ DOMAIN rt = {}
    /\ search.pc = "idle"
    /\ \E publisherName \in PublisherNames, options \in SearchOptions,
          found \in 0..MaxMatches :
          Commit(searchPublisherContent(World, "vector", publisherName, options,
                                        found))

CallSearchContentByDateRange ==
    /\ DOMAIN rt = {}
    /\ search.pc = "idle"
    /\ \E options \in SearchOptions, found \in 0..MaxMatches :
          Commit(searchContentByDateRange(World, "vector", "2023-12-01",
                                          "2023-12-07", options, found))

InitSearch == InitOperations

NextSearch ==
    \/ CallSearchPublisherContent
    \/ CallSearchContentByDateRange
    \/ \E t \in DOMAIN rt : OpResolves(t)
    \/ \E t \in DOMAIN rt : OpRejects(t)
    \/ \E t \in DOMAIN rt : OpTimesOut(t)
    \/ \E t \in DOMAIN rt : SleepDone(t)

SpecSearch == InitSearch /\ [][NextSearch]_vars

---------------------------------------------------------------------------
(* recordMetric, recordError and getMetrics called from outside            *)

Durations == {0, 1500, PERFORMANCE_CONFIG.slowQueryThreshold,
              PERFORMANCE_CONFIG.slowQueryThreshold + 1}

RecordedOperations == {"upsert", "query"}

\* recordMetric(operation, duration, count)
RecordMetric ==
    /\ Len(recorded) < MaxRecords
    /\ \E operation \in RecordedOperations, duration \in Durations,
          count \in 0..MaxCount :
          Commit(recordMetric(World, operation, duration, count))

\* recordError(operation, error, duration)
RecordError ==
    /\ Len(recorded) < MaxRecords
    /\ \E operation \in RecordedOperations :
          Commit(recordError(World, operation))

\* getMetrics(): the object it returns holds this.metrics.operations and
\* this.metrics.errors themselves, not copies (this.metrics.performance is
\* never written and is left out)
Ref(name) == [ref |-> name]

getMetrics == [operations |-> Ref("operations"), errors |-> Ref("errors")]

GetMetrics ==
    /\ pure.pc = "none"
    /\ pure' = returning(calling("getMetrics", EmptyMap), getMetrics)
    /\ UNCHANGED <<config, rt, storeCalls, up, metrics, proc, healthStatus,
                   probes, gen, costTracking, search, recorded, service>>

\* what the holder of the returned object reads through it
ReturnedValue == [k \in DOMAIN pure.result |-> metrics[pure.result[k].ref]]

\* an assignment through a reference of the returned object
writeThrough(w, reference, value) == [w EXCEPT !.metrics[reference.ref] = value]

\* the holder of the returned object deletes an operation from it:
\* delete returned.operations[operation]
CallerModifiesReturned ==
    /\ pure.pc = "returned"
    /\ pure.fn = "getMetrics"
    /\ \E operation \in DOMAIN ReturnedValue.operations :
          Commit(writeThrough(World, pure.result.operations,
                              restrict(ReturnedValue.operations,
                                       DOMAIN ReturnedValue.operations \ {operation})))

InitMetrics ==
    /\ config = DefaultConfig
    /\ Idle

NextMetrics ==
    \/ RecordMetric
    \/ RecordError

SpecMetrics == InitMetrics /\ [][NextMetrics]_vars

InitSnapshot == InitMetrics

NextSnapshot ==
    \/ RecordMetric
    \/ RecordError
    \/ GetMetrics
    \/ CallerModifiesReturned

SpecSnapshot == InitSnapshot /\ [][NextSnapshot]_vars

---------------------------------------------------------------------------
(* Health probes.  The model does not measure time, so a probe may start   *)
(* while earlier ones are running, and the attempt timeout of the executor *)
(* may come before the probe's own, shorter, timeout.                      *)

\* the interval timer fires (or performHealthCheck is called directly)
PerformHealthCheck ==
    /\ up.pc = "idle"
    /\ proc.pc = "idle"
    /\ probes.started < MaxProbes
    /\ Cardinality(DOMAIN rt) < MaxOverlappingProbes
    /\ Commit(performHealthCheck(World))

\* timeoutPromise(HEALTH_CONFIG.timeoutMs) rejects before getIndexStats settles
ProbeTimesOut(k) ==
    /\ k \in probes.running
    /\ Commit(probeTimedOut(World, k))

InitHealth ==
    /\ config \in [error : [maxRetries : {1, 2}, backoffMultiplier : {2},
                             initialDelay : {1}, maxDelay : {MaxMaxDelay}],
                    batch : {[maxBatchSize         |-> MaxBatchSize,
                              maxConcurrentBatches |-> MaxConcurrentBatches]}]
    /\ Idle

NextHealth ==
    \/ PerformHealthCheck
    \/ \E k \in probes.running : ProbeTimesOut(k)
    \/ \E t \in DOMAIN rt : OpResolves(t)
    \/ \E t \in DOMAIN rt : OpRejects(t)
    \/ \E t \in DOMAIN rt : OpTimesOut(t)
    \/ \E t \in DOMAIN rt : SleepDone(t)

SpecHealth == InitHealth /\ [][NextHealth]_vars

---------------------------------------------------------------------------
(* Concurrent writers of the metrics: a batched upsert, store operations   *)
(* started while others are in flight, and the health-probe loop.  Every   *)
(* call has one attempt (maxRetries 1), so that the interleavings of the   *)
(* completions, not those of the retries, fill the state space; an attempt *)
(* that fails is rejected by the store (a timeout ends the call the same   *)
(* way).                                                                   *)
StoreTasks == {t \in DOMAIN rt : t[1] \in StoreOperations}

\* queryVectors(vector) while earlier queries may be in flight
CallWriter ==
    /\ Cardinality(StoreTasks) < MaxWriters
    /\ \E found \in 0..MaxMatches :
          Commit(concurrentOperation(World, "query", <<1>>, found))

\* upsertVectors(vectors) with more vectors than one batch holds
CallBatchedUpsert ==
    /\ up.pc = "idle"
    /\ \E vectors \in ValidLists :
          /\ Len(vectors) = BATCH_CONFIG.maxBatchSize + 1
          /\ Commit(upsertVectors(World, vectors, NAMESPACE_CONFIG.daily_digests))

\* performHealthCheck, as the interval timer of startHealthMonitoring calls it
IntervalFires ==
    /\ probes.started < MaxTicks
    /\ Commit(performHealthCheck(World))

InitWriters ==
    /\ config = DefaultConfig
    /\ Idle

NextWriters ==
    \/ CallWriter
    \/ CallBatchedUpsert
    \/ IntervalFires
    \/ \E k \in probes.running : ProbeTimesOut(k)
    \/ \E t \in DOMAIN rt : OpResolves(t)
    \/ \E t \in DOMAIN rt : OpRejects(t)

SpecWriters == InitWriters /\ [][NextWriters]_vars

---------------------------------------------------------------------------
(* initialize, called again while an earlier call is in progress or after  *)
(* it has settled, and the health probes of the timers it sets             *)
InitializeCalls == 1..Len(service.calls)

AwaitingClient(k) ==
    service.calls[k].pc \in {"init", "listIndexes", "createIndex", "describeIndex", "verify"}

CallInitialize ==
    /\ Len(service.calls) < MaxInitializeCalls
    /\ Commit(initialize(World))

InitializeStepResolves(k) ==
    /\ AwaitingClient(k)
    /\ \E answer \in BOOLEAN, handle \in BOOLEAN :
          Commit(initializeStepResolved(World, k, answer, handle))

InitializeStepRejects(k) ==
    /\ AwaitingClient(k)
    /\ Commit(initializeStepRejected(World, k))

\* the loop is left after at most MaxPolls polls
WaitSlept(k) ==
    /\ service.calls[k].pc = "sleep"
    /\ \E expired \in BOOLEAN :
          /\ service.calls[k].polls + 1 < MaxPolls \/ expired
          /\ Commit(waitSlept(World, k, expired))

\* one of the timers set by startHealthMonitoring fires
HealthTimerFires ==
    /\ service.healthTimers > 0
    /\ probes.started < MaxTicks
    /\ Commit(performHealthCheck(World))

InitInitialize ==
    /\ config = DefaultConfig
    /\ Idle

NextInitialize ==
    \/ CallInitialize
    \/ \E k \in InitializeCalls : InitializeStepResolves(k)
    \/ \E k \in InitializeCalls : InitializeStepRejects(k)
    \/ \E k \in InitializeCalls : WaitSlept(k)
    \/ HealthTimerFires
    \/ \E t \in DOMAIN rt : OpResolves(t)
    \/ \E t \in DOMAIN rt : OpRejects(t)

SpecInitialize == InitInitialize /\ [][NextInitialize]_vars

---------------------------------------------------------------------------
(* generateEmbeddings of PineconeService and of OpenAIService, one call per run *)
Texts == {<<"a">>, <<"b">>}

TextArrays == UNION {[1..n -> Texts] : n \in 0..MaxTexts}

\* pineconeService.generateEmbeddings(texts)
CallGenerateEmbeddings ==
    /\ DOMAIN rt = {}
    /\ up.pc = "idle"
    /\ proc.pc = "idle"
    /\ gen.pc = "idle"
    /\ \/ \E texts \in Texts : Commit(generateEmbeddings(World, texts, FALSE))
       \/ \E texts \in TextArrays : Commit(generateEmbeddings(World, texts, TRUE))

\* openAIService.generateEmbeddings(texts)
CallOpenAIGenerateEmbeddings ==
    /\ DOMAIN rt = {}
    /\ up.pc = "idle"
    /\ proc.pc = "idle"
    /\ gen.pc = "idle"
    /\ \/ \E texts \in Texts : Commit(openaiGenerateEmbeddings(World, texts, FALSE))
       \/ \E texts \in TextArrays : Commit(openaiGenerateEmbeddings(World, texts, TRUE))

\* this.client.embeddings.create(...) resolves
ClientResolves ==
    /\ gen.pc = "calling"
    /\ \E usage \in {EmbeddingUsage(n) : n \in 1..MaxTokens} \cup {NoUsage} :
          Commit(openaiEmbeddingsResolved(World, usage))

\* this.client.embeddings.create(...) rejects
ClientRejects ==
    /\ gen.pc = "calling"
    /\ Commit(openaiEmbeddingsRejected(World, NetworkError))

InitEmbed ==
    /\ config \in [error : [maxRetries : 1..MaxRetriesBound, backoffMultiplier : {2},
                             initialDelay : {1}, maxDelay : 1..MaxMaxDelay],
                    batch : {[maxBatchSize         |-> MaxBatchSize,
                              maxConcurrentBatches |-> MaxConcurrentBatches]}]
    /\ Idle

NextEmbed ==
    \/ CallGenerateEmbeddings
    \/ CallOpenAIGenerateEmbeddings
    \/ ClientResolves
    \/ ClientRejects
    \/ \E t \in DOMAIN rt : OpResolves(t)
    \/ \E t \in DOMAIN rt : OpRejects(t)
    \/ \E t \in DOMAIN rt : OpTimesOut(t)
    \/ \E t \in DOMAIN rt : SleepDone(t)

SpecEmbed == InitEmbed /\ [][NextEmbed]_vars

---------------------------------------------------------------------------
(* A session of OpenAIService: embedding calls one after another, and      *)
(* resetCostTracking between them                                          *)

\* generateEmbeddings(texts) while no call is in progress
CallEmbeddingsInSession ==
    /\ gen.pc # "calling"
    /\ costTracking.requestCount < MaxRequests
    /\ \/ \E texts \in Texts : Commit(openaiGenerateEmbeddings(World, texts, FALSE))
       \/ \E texts \in TextArrays : Commit(openaiGenerateEmbeddings(World, texts, TRUE))

ResetCostTracking == Commit(resetCostTracking(World))

InitUsage == InitEmbed

NextUsage ==
    \/ CallEmbeddingsInSession
    \/ ClientResolves
    \/ ClientRejects
    \/ ResetCostTracking

SpecUsage == InitUsage /\ [][NextUsage]_vars

---------------------------------------------------------------------------
(* chunkContentForEmbedding on its own: the arguments are drawn at the     *)
(* start, the action is the call                                           *)
TextCharacters == {"a", "b", ".", " "}

Texts4Chunking == UNION {[1..n -> TextCharacters] : n \in 0..MaxTextLength}

ChunkContentForEmbedding ==
    /\ pure.pc = "called"
    /\ pure.fn = "chunkContentForEmbedding"
    /\ pure' = returning(pure, chunkContentForEmbedding(pure.args.content,
                                                         pure.args.maxChunkSize))
    /\ UNCHANGED <<config, rt, storeCalls, up, metrics, proc, healthStatus,
                   probes, gen, costTracking, search, recorded, service>>

InitChunk ==
    /\ config = DefaultConfig
    /\ Constructed
    /\ \E content \in Texts4Chunking, maxChunkSize \in 1..MaxChunkSize :
          pure = calling("chunkContentForEmbedding",
                         [content |-> content, maxChunkSize |-> maxChunkSize])

NextChunk == ChunkContentForEmbedding

SpecChunk == InitChunk /\ [][NextChunk]_vars

---------------------------------------------------------------------------
(* normalizePublisherName on its own.  The names passed are the canonical  *)
(* keys and aliases of at most MaxNameLength characters in every letter    *)
(* case, and a few names the table does not hold, each between 0..MaxPadding *)
(* spaces on either side.                                                  *)
upperOf(c) ==
    IF \E i \in 1..Len(LowerCase) : LowerCase[i] = c
    THEN UpperCase[CHOOSE i \in 1..Len(LowerCase) : LowerCase[i] = c]
    ELSE c

RECURSIVE CaseVariants(_)
CaseVariants(s) ==
    IF s = <<>> THEN {<<>>}
    ELSE {<<c>> \o v : c \in {Head(s), upperOf(Head(s))}, v \in CaseVariants(Tail(s))}

spaces(n) == [i \in 1..n |-> " "]

ConfiguredNames ==
    {name \in SpelledNames \ {"TechCrunch", "Brit", "Unknown Publisher"} :
        Len(spell(name)) <= MaxNameLength}

OtherNames == {<<>>, <<"b", "r", "i">>, <<"t", " ", "c">>, <<"o", "t", "h", "e", "r">>}

\* the arguments: the name passed, and the table entry it was written from
\* ("" for a name the table does not hold)
NameArguments ==
    {[publisherName |-> spaces(l) \o v \o spaces(r), from |-> name] :
        <<name, v>> \in UNION {{<<n, x>> : x \in CaseVariants(spell(n))} :
                                 n \in ConfiguredNames},
        l \in 0..MaxPadding, r \in 0..MaxPadding}
    \cup
    {[publisherName |-> spaces(l) \o v \o spaces(r), from |-> ""] :
        v \in UNION {CaseVariants(o) : o \in OtherNames},
        l \in 0..MaxPadding, r \in 0..MaxPadding}

NormalizePublisherName ==
    /\ pure.pc = "called"
    /\ pure.fn = "normalizePublisherName"
    /\ pure' = returning(pure, normalizePublisherName(pure.args.publisherName))
    /\ UNCHANGED <<config, rt, storeCalls, up, metrics, proc, healthStatus,
                   probes, gen, costTracking, search, recorded, service>>

InitNormalize ==
    /\ config = DefaultConfig
    /\ Constructed
    /\ \E args \in NameArguments : pure = calling("normalizePublisherName", args)

NextNormalize == NormalizePublisherName

SpecNormalize == InitNormalize /\ [][NextNormalize]_vars

---------------------------------------------------------------------------
(* Inputs of processAndUpsertDigestContent *)
Characters == {"a", ".", " "}

Contents == UNION {[1..n -> Characters] : n \in 0..MaxContentLength}

\* an object with some of the keys publisher, date, source and summary
objectOf(publisher, date, source, summary) ==
    LET given == [k \in {"publisher", "date", "source", "summary"} |->
                     CASE k = "publisher" -> publisher
                       [] k = "date"      -> date
                       [] k = "source"    -> source
                       [] k = "summary"   -> summary]
    IN  [k \in {k \in DOMAIN given : given[k] # "absent"} |-> given[k]]

DigestMetadata ==
    {objectOf(publisher, date, source, summary) :
        publisher \in {"absent", "", "TechCrunch", "Brit", "Unknown Publisher"},
        date      \in {"absent", "2023-12-01"},
        source    \in {"absent", "", "daily-digest-email"},
        summary   \in {"absent", "x"}}

\* processAndUpsertDigestContent(content, metadata, namespace)
CallProcessAndUpsertDigestContent ==
    /\ DOMAIN rt = {}
    /\ up.pc = "idle"
    /\ proc.pc = "idle"
    /\ \E content \in Contents, metadata \in DigestMetadata, namespace \in Namespaces :
          Commit(processAndUpsertDigestContent(World, content, metadata, namespace,
                                               MaxChunkSize))

\* the retry policy of the upsert runs, the batch size that holds every chunk list
InitProcess ==
    /\ config \in [error : [maxRetries : 1..MaxStoreRetries, backoffMultiplier : {2},
                             initialDelay : {1}, maxDelay : {MaxMaxDelay}],
                    batch : {[maxBatchSize         |-> MaxBatchSize,
                              maxConcurrentBatches |-> MaxConcurrentBatches]}]
    /\ Idle

NextProcess ==
    \/ CallProcessAndUpsertDigestContent
    \/ \E t \in DOMAIN rt : OpResolves(t)
    \/ \E t \in DOMAIN rt : OpRejects(t)
    \/ \E t \in DOMAIN rt : OpTimesOut(t)
    \/ \E t \in DOMAIN rt : SleepDone(t)

SpecProcess == InitProcess /\ [][NextProcess]_vars

---------------------------------------------------------------------------
(* Properties of the retry executor *)

Failed(outcome) == outcome # "ok"

AllFailed(t) == \A i \in 1..Len(rt[t].outcomes) : Failed(rt[t].outcomes[i])

\* C2: for every maxRetries >= 1, an operation that fails on every attempt is
\* invoked exactly maxRetries times, after which executeWithRetry rejects
\* with the error of the last attempt; it never resolves and never stops early.
C2_RetryTermination ==
    \A t \in DOMAIN rt :
        LET s == rt[t] IN
        /\ s.calls <= ERROR_CONFIG.maxRetries
        /\ (AllFailed(t) /\ Finished(t)) =>
              /\ s.pc = "rejected"
              /\ s.calls = ERROR_CONFIG.maxRetries
              /\ Len(s.outcomes) = ERROR_CONFIG.maxRetries
              /\ s.lastError = Error(s.outcomes[ERROR_CONFIG.maxRetries],
                                  ERROR_CONFIG.maxRetries - 1)
        /\ s.pc = "rejected" => AllFailed(t)

\* three attempts failed with three different errors; the last one is thrown
C2_Witness ==
    \E t \in DOMAIN rt :
        /\ rt[t].pc = "rejected"
        /\ ERROR_CONFIG.maxRetries = 3
        /\ rt[t].outcomes = <<NetworkError, TimeoutError, AuthError>>

\* C3: an operation that fails on its first k attempts (k < maxRetries) and
\* then succeeds is invoked exactly k+1 times; executeWithRetry resolves with
\* the result of that attempt, and nothing is attempted after the success.
C3_ResolvesOnFirstSuccess ==
    \A t \in DOMAIN rt :
        LET s == rt[t]
            n == Len(s.outcomes)
        IN  \A i \in 1..n :
                s.outcomes[i] = "ok" =>
                    /\ i = n
                    /\ \A j \in 1..(i - 1) : Failed(s.outcomes[j])
                    /\ s.pc = "resolved"
                    /\ s.calls = i
                    /\ i <= ERROR_CONFIG.maxRetries
                    /\ s.result = [value |-> "success", at |-> i - 1]
                    /\ Len(s.sleeps) = i - 1

\* two failures, then the third attempt succeeds
C3_Witness ==
    \E t \in DOMAIN rt :
        /\ rt[t].pc = "resolved"
        /\ rt[t].outcomes = <<NetworkError, NetworkError, "ok">>
        /\ rt[t].calls = 3

\* C4: an attempt that has not settled within timeoutMs is a failed attempt
\* with error 'Operation timeout': it is followed by a sleep and a new attempt
\* unless it was the last one, and an operation that never settles makes
\* executeWithRetry reject with 'Operation timeout' after maxRetries attempts.
C4_TimeoutIsFailedAttempt ==
    \A t \in DOMAIN rt :
        LET s == rt[t]
            n == Len(s.outcomes)
        IN  /\ \A i \in 1..n :
                  s.outcomes[i] = TimeoutError =>
                      IF i < ERROR_CONFIG.maxRetries
                      THEN /\ Len(s.sleeps) >= i
                           /\ s.sleeps[i] = IF i = 1 THEN ERROR_CONFIG.initialDelay
                                                      ELSE nextDelay(s.sleeps[i - 1])
                           /\ IF i = n /\ s.pc = "sleeping"
                              THEN s.calls = i
                              ELSE s.calls > i
                      ELSE /\ s.pc = "rejected"
                           /\ s.lastError = Error(TimeoutError, i - 1)
            /\ (Finished(t) /\ \A i \in 1..n : s.outcomes[i] = TimeoutError) =>
                  /\ s.pc = "rejected"
                  /\ s.calls = ERROR_CONFIG.maxRetries
                  /\ s.lastError.message = TimeoutError

\* every one of three attempts timed out
C4_Witness ==
    \E t \in DOMAIN rt :
        /\ rt[t].pc = "rejected"
        /\ rt[t].outcomes = <<TimeoutError, TimeoutError, TimeoutError>>
        /\ rt[t].calls = 3

\* C5: the sleep after failed attempt k (0-based) is
\* min(initialDelay * backoffMultiplier^k, maxDelay) for every configuration,
\* so no sleep exceeds maxDelay, and no sleep follows the final failed attempt.
C5_BackoffWithCeiling ==
    \A t \in DOMAIN rt :
        LET s == rt[t] IN
        /\ \A k \in 1..Len(s.sleeps) :
              /\ s.sleeps[k] = Min(ERROR_CONFIG.initialDelay
                                     * Pow(ERROR_CONFIG.backoffMultiplier, k - 1),
                                   ERROR_CONFIG.maxDelay)
              /\ s.sleeps[k] <= ERROR_CONFIG.maxDelay
        /\ Len(s.sleeps) <= ERROR_CONFIG.maxRetries - 1

\* C6: an operation that fails with an authentication error is surfaced at
\* once: it is invoked exactly once and no backoff sleep occurs.
C6_AuthErrorNotRetried ==
    \A t \in DOMAIN rt :
        LET s == rt[t] IN
        (Len(s.outcomes) >= 1 /\ s.outcomes[1] = AuthError) =>
            /\ s.pc = "rejected"
            /\ s.calls = 1
            /\ s.sleeps = <<>>
            /\ s.lastError = Error(AuthError, 0)

---------------------------------------------------------------------------
(* Properties of upsertVectors *)

\* a vector that one of validateVectors' checks rejects; a vector that
\* carries no metadata object is the subject of C9 and is not counted here
InvalidVector(v) ==
    \/ v.id = 0
    \/ v.values = NoValues
    \/ v.values # 1536
    \/ /\ v.metadata.present
       /\ \/ \E f \in RequiredFields : missingField(v.metadata.fields, f)
          \/ \E k \in DOMAIN v.metadata.fields : k \notin VECTOR_METADATA_SCHEMA

ValidationMessages ==
    {"Vector must have an id", "Vector must have values array",
     "Vector dimensions mismatch", "Required metadata field missing",
     "Extra metadata field not allowed"}

C8_DimensionCheck ==
    up.pc # "idle" =>
        LET vs       == up.vectors
            mismatch == {i \in 1..Len(vs) :
                            vs[i].values # NoValues /\ vs[i].values # 1536}
            bad      == {i \in 1..Len(vs) : InvalidVector(vs[i])}
        IN  /\ mismatch # {} => up.pc = "rejected" /\ storeCalls = EmptyBag
            /\ \A i \in mismatch :
                  (vs[i].id # 0 /\ \A j \in bad : i <= j) =>
                      up.error = ValidationError("Vector dimensions mismatch", "",
                                                 1536, vs[i].values)
            /\ up.error.message = "Vector dimensions mismatch" =>
                  /\ up.error.expected = 1536
                  /\ \E i \in mismatch : up.error.actual = vs[i].values
            /\ \A i \in bad :
                  (vs[i].values = 1536 /\ \A j \in bad : i <= j) =>
                      up.error.message # "Vector dimensions mismatch"

\* dimension 1536 and 768 values: a mismatch of 1536 against 768
C8_Witness ==
    /\ up.pc = "rejected"
    /\ up.error = ValidationError("Vector dimensions mismatch", "", 1536, 768)

\* a values array that is one element too long is rejected as well
C8_WitnessTooLong ==
    /\ up.pc = "rejected"
    /\ up.error = ValidationError("Vector dimensions mismatch", "", 1536, 1537)

\* C9: no vector lacking one of the required fields publisher, date,
\* content_type and source is ever sent to the store, whether its metadata
\* object lacks the field or the vector carries no metadata at all.
C9_RequiredFieldsBeforeStore ==
    \A call \in BagToSet(storeCalls) :
        \A i \in 1..Len(call.vectors) :
            /\ call.vectors[i].metadata.present
            /\ \A f \in RequiredFields :
                   ~missingField(call.vectors[i].metadata.fields, f)

Ceil(n, d) == (n + d - 1) \div d

FirstAttemptsOnly == \A t \in DOMAIN rt : rt[t].calls = 1

\* C10: when every store call succeeds on its first attempt, upserting n
\* vectors with maxBatchSize = B issues exactly ceil(n/B) store calls, for
\* every n.
C10_StoreCallCount ==
    (up.pc = "resolved" /\ FirstAttemptsOnly) =>
        BagCardinality(storeCalls) = Ceil(Len(up.vectors), BATCH_CONFIG.maxBatchSize)

\* what the code does for a list that is not empty (3 vectors, B = 2: calls of 2 and 1)
StoreCallCountNonEmpty ==
    (up.pc = "resolved" /\ FirstAttemptsOnly /\ Len(up.vectors) >= 1) =>
        BagCardinality(storeCalls) = Ceil(Len(up.vectors), BATCH_CONFIG.maxBatchSize)

---------------------------------------------------------------------------
(* Properties of processAndUpsertDigestContent (checked under SpecProcess) *)

\* the store requests issued so far
StoreRequests == BagToSet(storeCalls)

\* C1: once processAndUpsertDigestContent has settled, called with metadata
\* that holds a publisher, a date and a source and with no network call
\* failing for good, it has resolved: every chunk of the content was sent to
\* be embedded, the upsert of exactly the produced vectors went to the given
\* namespace, and vectorCount is the number of chunks.
C1_ProcessAndUpsertSucceeds ==
    (/\ proc.pc \in {"resolved", "rejected"}
     /\ \A f \in {"publisher", "date", "source"} : ~missingField(proc.metadata, f)
     /\ \A t \in DOMAIN rt : rt[t].pc # "rejected")
    => /\ proc.pc = "resolved"
       /\ proc.chunks = chunkContentForEmbedding(proc.content, MaxChunkSize)
       /\ rt[EmbedTask].request.input = proc.chunks
       /\ proc.vectorCount = Len(proc.chunks)
       /\ Len(proc.vectors) = Len(proc.chunks)
       /\ StoreRequests # {}
       /\ \A c \in StoreRequests : c.namespace = proc.namespace
       /\ \A p \in 1..Len(proc.vectors) :
             \E c \in StoreRequests :
                \E q \in 1..Len(c.vectors) : c.vectors[q] = proc.vectors[p]
       /\ \A c \in StoreRequests :
             \A q \in 1..Len(c.vectors) :
                \E p \in 1..Len(proc.vectors) : c.vectors[q] = proc.vectors[p]

\* (the digest vectors are always refused: no call with a publisher and a
\* date ever reaches the store)
DigestNeverReachesStore == storeCalls = EmptyBag

---------------------------------------------------------------------------
(* Properties of batched upserts (checked under SpecBatch) *)

BatchTasks == {t \in DOMAIN rt : t[1] = "batch"}

Batched == up.pc # "idle" /\ Len(up.vectors) > BATCH_CONFIG.maxBatchSize

Quiescent == \A t \in DOMAIN rt : Finished(t)

RECURSIVE OpenCalls(_)
OpenCalls(tasks) ==
    IF tasks = {} THEN 0
    ELSE LET t == CHOOSE x \in tasks : TRUE
         IN  rt[t].open + OpenCalls(tasks \ {t})

\* C11: during a batched upsert the store upsert calls of that upsert that
\* have been issued and have not settled never number more than
\* maxConcurrentBatches.
C11_ConcurrencyCeiling ==
    OpenCalls(BatchTasks) <= BATCH_CONFIG.maxConcurrentBatches

\* (without timeouts the ceiling holds: one open call per running batch)
CeilingWithoutTimeouts ==
    (\A t \in BatchTasks : \A k \in 1..Len(rt[t].outcomes) :
        rt[t].outcomes[k] # TimeoutError)
    => OpenCalls(BatchTasks) <= BATCH_CONFIG.maxConcurrentBatches

\* C12: when a batched upsert has come to rest, every batch of it has been
\* dispatched and has run to its own success or retry exhaustion, whatever
\* happened to the other batches.
C12_SiblingBatchesStillRun ==
    (Batched /\ up.pc \in {"resolved", "rejected"} /\ Quiescent)
    => \A j \in 0..(Len(up.batches) - 1) :
          BatchTask(j) \in DOMAIN rt /\ Finished(BatchTask(j))

\* C13: when a batched upsert has settled with some batches succeeded and
\* others failed, the caller has received one outcome per batch, not an
\* exception.
C13_PerBatchOutcomes ==
    (/\ Batched /\ up.pc \in {"resolved", "rejected"}
     /\ \E t \in BatchTasks : rt[t].pc = "resolved"
     /\ \E t \in BatchTasks : rt[t].pc = "rejected")
    => /\ up.pc = "resolved"
       /\ Len(up.results) = Len(up.batches)

\* C14: a successful upsert of more vectors than maxBatchSize (250 with
\* batches of 100) has dispatched ceil(n / maxBatchSize) batches (3), and
\* afterwards the 'upsert' operation metric counts the n vectors.
C14_BatchedUpsertMetric ==
    (Batched /\ up.pc = "resolved")
    => /\ Len(up.batches) = Ceil(Len(up.vectors), BATCH_CONFIG.maxBatchSize)
       /\ \A j \in 0..(Len(up.batches) - 1) : BatchTask(j) \in DOMAIN rt
       /\ "upsert" \in DOMAIN metrics.operations
       /\ metrics.operations["upsert"].count = Len(up.vectors)

\* (what the code records for a batched upsert)
BatchedUpsertRecordsBatchMetric ==
    (Batched /\ up.pc = "resolved")
    => /\ Len(up.batches) = Ceil(Len(up.vectors), BATCH_CONFIG.maxBatchSize)
       /\ "upsert" \notin DOMAIN metrics.operations
       /\ metrics.operations["batch_upsert"].count = Len(up.vectors)

RECURSIVE Flatten(_)
Flatten(lists) ==
    IF lists = <<>> THEN <<>> ELSE Head(lists) \o Flatten(Tail(lists))

\* the vectors of the store calls of the upsert, in the order of the batch index
StoreCallsInOrder ==
    LET calls == BagToSet(storeCalls)
        taskOf(j) == IF Batched THEN BatchTask(j) ELSE UpsertTask
    IN  [p \in 1..Cardinality(calls) |->
            (CHOOSE call \in calls : call.task = taskOf(p - 1)).vectors]

\* (C37 and C38 are checked under SpecUpsert)
\* C37: when every store call has succeeded on its first attempt, the store
\* calls of the upsert carry every input vector exactly once: each batch
\* index has one call, the calls taken in index order concatenate to the
\* input list, no call has more than maxBatchSize vectors, and every call
\* but the last has exactly maxBatchSize.
C37_BatchesPartitionInput ==
    (up.pc = "resolved" /\ FirstAttemptsOnly) =>
        LET calls == BagToSet(storeCalls)
            n     == Cardinality(calls)
        IN  /\ BagCardinality(storeCalls) = n
            /\ {call.task : call \in calls} =
                   (IF Batched THEN {BatchTask(j) : j \in 0..(n - 1)} ELSE {UpsertTask})
            /\ Flatten(StoreCallsInOrder) = up.vectors
            /\ \A p \in 1..n :
                   Len(StoreCallsInOrder[p]) <= BATCH_CONFIG.maxBatchSize
            /\ \A p \in 1..(n - 1) :
                   Len(StoreCallsInOrder[p]) = BATCH_CONFIG.maxBatchSize

\* three vectors have gone to the store in batches of two and one
C37_Witness ==
    /\ up.pc = "resolved"
    /\ FirstAttemptsOnly
    /\ BATCH_CONFIG.maxBatchSize = 2
    /\ Len(up.vectors) = 3
    /\ BagCardinality(storeCalls) = 2
    /\ Len(StoreCallsInOrder[2]) = 1

\* the executeWithRetry calls an upsert of up.vectors consists of
UpsertTasks ==
    IF Batched THEN {BatchTask(j) : j \in 0..(Len(up.batches) - 1)} ELSE {UpsertTask}

\* the store has resolved a call of task t that carried the vector
Acknowledged(vector) ==
    \E call \in BagToSet(storeCalls) :
        /\ rt[call.task].pc = "resolved"
        /\ \E q \in 1..Len(call.vectors) : call.vectors[q] = vector

\* C38: upsertVectors resolves only if the store has acknowledged every batch
\* of the input, so that every input vector was in an acknowledged call; and
\* once a batch has exhausted its retries the upsert has rejected.
C38_SuccessOnlyIfAllAcknowledged ==
    /\ up.pc = "resolved" =>
          /\ \A t \in UpsertTasks : t \in DOMAIN rt /\ rt[t].pc = "resolved"
          /\ \A i \in 1..Len(up.vectors) : Acknowledged(up.vectors[i])
    /\ (\E t \in DOMAIN rt : rt[t].pc = "rejected") =>
          /\ up.pc = "rejected"
          /\ \A t \in DOMAIN rt :
                rt[t].pc = "rejected" => rt[t].calls = ERROR_CONFIG.maxRetries

\* the first batch was acknowledged, the second was refused on each of its
\* two attempts, and the upsert has rejected
C38_Witness ==
    /\ Batched
    /\ up.pc = "rejected"
    /\ {BatchTask(0), BatchTask(1)} \subseteq DOMAIN rt
    /\ rt[BatchTask(0)].pc = "resolved"
    /\ rt[BatchTask(1)].pc = "rejected"
    /\ rt[BatchTask(1)].calls = 2

\* C39: within one executeWithRetry call at most one invocation of the
\* operation is pending at any time, also after an attempt that ended by
\* timeout.
C39_OneInvocationPending == \A t \in DOMAIN rt : rt[t].open <= 1

\* (without timeouts an attempt ends when its invocation settles)
OneInvocationWithoutTimeouts ==
    \A t \in DOMAIN rt :
        (\A k \in 1..Len(rt[t].outcomes) : rt[t].outcomes[k] # TimeoutError)
        => rt[t].open <= 1

\* the batches of the upsert that have not been dispatched yet
WaitingBatches == {j \in 0..(Len(up.batches) - 1) : BatchTask(j) \notin DOMAIN rt}

\* the batches that have been dispatched and have not finished
InFlightBatches == {t \in BatchTasks : ~Finished(t)}

\* C33: in a batched upsert no batch waits while a slot is free: as long as
\* some batch has not been dispatched, maxConcurrentBatches batches are in
\* flight (a waiting batch takes the slot of a batch that finishes without
\* waiting for the others in flight).
C33_WaitingBatchTakesFreedSlot ==
    (up.pc = "batch" /\ WaitingBatches # {})
    => Cardinality(InFlightBatches) = BATCH_CONFIG.maxConcurrentBatches

---------------------------------------------------------------------------
(* Properties of the operation metrics (checked under SpecOperations) *)

\* the operations whose call has settled, and those whose call has failed
SettledOperations ==
    {t[1] : t \in {x \in DOMAIN rt : x[1] \in StoreOperations /\ Finished(x)}}
        \cup (IF up.pc \in {"resolved", "rejected"} THEN {"upsert"} ELSE {})

FailedOperations ==
    {t[1] : t \in {x \in DOMAIN rt : x[1] \in StoreOperations /\ rt[x].pc = "rejected"}}
        \cup (IF up.pc = "rejected" THEN {"upsert"} ELSE {})

\* C15: every settled call of upsert, query, delete or fetch has recorded an
\* operation metric under its name, whether it succeeded or failed, and a
\* failed one has recorded an error metric as well.
C15_MetricWhateverTheOutcome ==
    /\ \A o \in SettledOperations : o \in DOMAIN metrics.operations
    /\ \A o \in FailedOperations : o \in DOMAIN metrics.errors

\* (what the code records: the error metric exactly for the failed calls, the
\* operation metric for the successful ones, except 'upsert' after batches)
MetricOrErrorNotBoth ==
    /\ \A o \in FailedOperations :
          o \in DOMAIN metrics.errors /\ o \notin DOMAIN metrics.operations
    /\ \A o \in SettledOperations \ FailedOperations :
          /\ o \notin DOMAIN metrics.errors
          /\ o \in DOMAIN metrics.operations <=> ~(o = "upsert" /\ Batched)

---------------------------------------------------------------------------
(* Properties of the health state (checked under SpecHealth) *)

\* the last n recorded outcomes exist and are all `outcome`
EndsWith(log, outcome, n) ==
    Len(log) >= n /\ \A i \in (Len(log) - n + 1)..Len(log) : log[i] = outcome

\* the number of outcomes equal to `outcome` that end the log
RECURSIVE TrailingRun(_, _)
TrailingRun(log, outcome) ==
    IF log = <<>> \/ log[Len(log)] # outcome THEN 0
    ELSE 1 + TrailingRun(SubSeq(log, 1, Len(log) - 1), outcome)

\* C16: isHealthy turns from true to false exactly in the step that records
\* the unhealthyThreshold-th failed probe in a row, and from false to true
\* exactly in the step that records the healthyThreshold-th passed probe in a
\* row; so one success after the fall leaves isHealthy false.
C16_HealthTransitions ==
    [][/\ (healthStatus.isHealthy /\ ~healthStatus'.isHealthy)
            <=> (/\ healthStatus.isHealthy
                 /\ probes'.log # probes.log
                 /\ EndsWith(probes'.log, "fail", HEALTH_CONFIG.unhealthyThreshold))
       /\ (~healthStatus.isHealthy /\ healthStatus'.isHealthy)
            <=> (/\ ~healthStatus.isHealthy
                 /\ probes'.log # probes.log
                 /\ EndsWith(probes'.log, "pass", HEALTH_CONFIG.healthyThreshold))]_vars

\* healthy, then three failures, one success that left it unhealthy, and a
\* second success: healthy again
C16_Witness ==
    /\ healthStatus.isHealthy
    /\ probes.log = <<"pass", "pass", "fail", "fail", "fail", "pass", "pass">>

\* C17: on a fresh service, once a single performHealthCheck has passed,
\* isHealthy is true.
C17_HealthyAfterOneSuccess ==
    probes.log = <<"pass">> => healthStatus.isHealthy

\* (what the code does: isHealthy needs healthyThreshold passed probes)
UnhealthyUntilThreshold ==
    Len(probes.log) < HEALTH_CONFIG.healthyThreshold => ~healthStatus.isHealthy

\* C18: consecutiveSuccesses is the number of passed probes that end the
\* sequence of recorded outcomes and consecutiveFailures the number of failed
\* ones, so each outcome adds one to its counter and zeroes the other, and
\* the two are never both positive; overlapping probes included.
C18_CountersFollowOutcomes ==
    /\ healthStatus.consecutiveSuccesses = TrailingRun(probes.log, "pass")
    /\ healthStatus.consecutiveFailures = TrailingRun(probes.log, "fail")
    /\ ~(healthStatus.consecutiveSuccesses > 0 /\ healthStatus.consecutiveFailures > 0)

\* two probes overlap after a failure and two successes in a row
C18_Witness ==
    /\ Cardinality(probes.running) = 2
    /\ Len(probes.log) >= 3
    /\ EndsWith(probes.log, "pass", 2)
    /\ healthStatus.consecutiveSuccesses = 2
    /\ healthStatus.consecutiveFailures = 0
    /\ \E i \in 1..Len(probes.log) : probes.log[i] = "fail"

\* n outcomes in a row, somewhere in the log, are `outcome`
HasRun(log, outcome, n) ==
    \E i \in 1..(Len(log) - n + 1) : \A j \in i..(i + n - 1) : log[j] = outcome

---------------------------------------------------------------------------
(* Properties of generateEmbeddings (checked under SpecEmbed) *)

\* the embedding of a text
EmbeddingOfText(text) == [of |-> text, length |-> PINECONE_CONFIG.dimensions]

\* C19: a resolved generateEmbeddings call that was given a single string
\* returns one vector, the embedding of that string; given a sequence of n
\* texts it returns a sequence of n vectors whose i-th is the embedding of
\* the i-th text.
C19_ShapeAndOrder ==
    gen.pc = "resolved"
    => IF gen.isArray
       THEN /\ gen.result.shape = "sequence"
            /\ Len(gen.result.value) = Len(gen.texts)
            /\ \A i \in 1..Len(gen.texts) :
                  gen.result.value[i] = EmbeddingOfText(gen.texts[i])
       ELSE /\ gen.result.shape = "vector"
            /\ gen.result.value = EmbeddingOfText(gen.texts)

\* two different texts embedded in one call, after a failed first attempt
C19_Witness ==
    /\ gen.pc = "resolved"
    /\ gen.service = "PineconeService"
    /\ gen.isArray
    /\ gen.texts = << <<"a">>, <<"b">> >>
    /\ gen.calls = 2
    /\ gen.result.value = <<EmbeddingOfText(<<"a">>), EmbeddingOfText(<<"b">>)>>

\* (the single-string case of the same property is reached as well)
SingleTextEmbedded ==
    /\ gen.pc = "resolved"
    /\ ~gen.isArray
    /\ gen.result = [shape |-> "vector", value |-> EmbeddingOfText(<<"b">>)]

\* a generateEmbeddings call that went through executeWithRetry and behaved
\* as the executor prescribes
ThroughRetryExecutor ==
    /\ EmbedTask \in DOMAIN rt
    /\ gen.calls = rt[EmbedTask].calls
    /\ gen.pc = "rejected"
         => /\ gen.calls = ERROR_CONFIG.maxRetries
            /\ Len(rt[EmbedTask].sleeps) = ERROR_CONFIG.maxRetries - 1
            /\ AllFailed(EmbedTask)
            /\ gen.error = rt[EmbedTask].lastError
    /\ gen.pc = "resolved" => gen.result.shape # "none"

\* C20: every generateEmbeddings call behaves as the retry executor
\* prescribes: a rejected one has sent exactly maxRetries requests to the
\* embeddings API (it does not give up at the first failure), and a resolved
\* one returns the embeddings after at most maxRetries requests.
C20_EmbeddingCallsThroughRetry ==
    /\ gen.pc = "rejected" => gen.calls = ERROR_CONFIG.maxRetries
    /\ gen.pc = "resolved" => /\ gen.result.shape # "none"
                              /\ gen.calls <= ERROR_CONFIG.maxRetries

\* (PineconeService.generateEmbeddings does go through the executor)
PineconeEmbeddingCallsThroughRetry ==
    (gen.pc \in {"resolved", "rejected"} /\ gen.service = "PineconeService")
    => ThroughRetryExecutor

---------------------------------------------------------------------------
(* Properties of the usage totals (checked under SpecUsage) *)

\* C21: a successful embedding call raises requestCount by exactly 1 and
\* totalTokens by the call's total_tokens; a failed call leaves the three
\* totals as they were; resetCostTracking sets the three totals to zero and
\* changes nothing else.
C21_UsageTotals ==
    [][/\ (gen.pc = "calling" /\ gen'.pc = "resolved") =>
             /\ costTracking'.requestCount = costTracking.requestCount + 1
             /\ costTracking'.totalTokens =
                    costTracking.totalTokens + gen'.tokens.total_tokens
       /\ (gen.pc = "calling" /\ gen'.pc = "rejected") =>
             costTracking' = costTracking
       /\ ResetCostTracking =>
             /\ costTracking'.totalTokens = 0
             /\ costTracking'.totalCost = Cost(0)
             /\ costTracking'.requestCount = 0
             /\ UNCHANGED <<config, rt, storeCalls, up, metrics, proc,
                            healthStatus, probes, gen, pure, search,
                            recorded, service>>]_vars

\* two calls have succeeded with 1 and 2 tokens and a third has failed
C21_Witness ==
    /\ gen.pc = "rejected"
    /\ costTracking.requestCount = 2
    /\ costTracking.totalTokens = 3

---------------------------------------------------------------------------
(* Properties of chunkContentForEmbedding (checked under SpecChunk)        *)

Chunked == pure.pc = "returned" /\ pure.fn = "chunkContentForEmbedding"

\* the non-empty sentences of a text, trimmed, in order
RECURSIVE nonEmpty(_)
nonEmpty(pieces) ==
    IF pieces = <<>> THEN <<>>
    ELSE IF trim(Head(pieces)) = <<>> THEN nonEmpty(Tail(pieces))
    ELSE <<trim(Head(pieces))>> \o nonEmpty(Tail(pieces))

SentencesOf(text) == nonEmpty(splitSentences(text))

RECURSIVE SentencesOfAll(_)
SentencesOfAll(chunks) ==
    IF chunks = <<>> THEN <<>>
    ELSE SentencesOf(Head(chunks)) \o SentencesOfAll(Tail(chunks))

\* C22: a text no longer than maxChunkSize comes back as the one-element
\* sequence holding the text itself, character for character.
C22_ShortTextIsOneChunk ==
    (Chunked /\ Len(pure.args.content) <= pure.args.maxChunkSize)
    => pure.result = <<pure.args.content>>

\* a text of exactly maxChunkSize characters that trimming or splitting
\* would have changed
C22_Witness ==
    /\ Chunked
    /\ pure.args.maxChunkSize = 2
    /\ pure.args.content = <<" ", ".">>
    /\ pure.result = << <<" ", ".">> >>

\* C23: for a text longer than maxChunkSize whose sentences are each at most
\* maxChunkSize long, no returned chunk is longer than maxChunkSize.
C23_ChunksWithinLimit ==
    (/\ Chunked
     /\ Len(pure.args.content) > pure.args.maxChunkSize
     /\ \A k \in 1..Len(splitSentences(pure.args.content)) :
           Len(splitSentences(pure.args.content)[k]) <= pure.args.maxChunkSize)
    => \A p \in 1..Len(pure.result) : Len(pure.result[p]) <= pure.args.maxChunkSize

\* (the separator is not counted: two one-character sentences are joined
\* into a chunk of four characters under a limit of two)
SeparatorNotCounted ==
    /\ Chunked
    /\ pure.args.maxChunkSize = 2
    /\ pure.args.content = <<"a", ".", "b", ".", "a">>
    /\ Len(pure.result[1]) = 4

\* C24: a text longer than maxChunkSize without any sentence terminator
\* comes back as a single chunk equal to the text.
C24_NoTerminatorUnchanged ==
    (/\ Chunked
     /\ Len(pure.args.content) > pure.args.maxChunkSize
     /\ \A i \in 1..Len(pure.args.content) : pure.args.content[i] \notin Terminators)
    => pure.result = <<pure.args.content>>

\* (what the code returns for such a text: the text trimmed, or the text
\* itself when it is nothing but whitespace)
NoTerminatorTrimmed ==
    (/\ Chunked
     /\ Len(pure.args.content) > pure.args.maxChunkSize
     /\ \A i \in 1..Len(pure.args.content) : pure.args.content[i] \notin Terminators)
    => pure.result = <<IF trim(pure.args.content) = <<>> THEN pure.args.content
                       ELSE trim(pure.args.content)>>

\* C26: for a text longer than maxChunkSize, the non-empty sentences of the
\* chunks, read chunk after chunk, are the non-empty sentences of the text:
\* each one once, in the original order.
C26_SentencesKept ==
    (Chunked /\ Len(pure.args.content) > pure.args.maxChunkSize)
    => SentencesOfAll(pure.result) = SentencesOf(pure.args.content)

\* three sentences, the first two joined by the inserted separator
C26_Witness ==
    /\ Chunked
    /\ pure.args.maxChunkSize = 2
    /\ pure.args.content = <<"a", ".", "b", ".", "a">>
    /\ pure.result = << <<"a", ".", " ", "b">>, <<"a">> >>

---------------------------------------------------------------------------
(* Properties of processDigestContent (checked under SpecProcess)          *)

\* C25: processDigestContent on a content longer than the maximum chunk size
\* returns more than one vector, the first with chunk_index 0 and the second
\* with chunk_index 1.
C25_LongContentManyVectors ==
    (proc.vectors # <<>> /\ Len(proc.content) > MaxChunkSize)
    => /\ Len(proc.vectors) > 1
       /\ proc.vectors[1].metadata.fields["chunk_index"] = 0
       /\ proc.vectors[2].metadata.fields["chunk_index"] = 1

\* (what the code returns: one vector per chunk of the content, numbered
\* from 0 in chunk order)
OneVectorPerChunk ==
    proc.vectors # <<>>
    => /\ Len(proc.vectors) = Len(chunkContentForEmbedding(proc.content, MaxChunkSize))
       /\ \A p \in 1..Len(proc.vectors) :
             proc.vectors[p].metadata.fields["chunk_index"] = p - 1

\* C34: processDigestContent returns one vector per chunk, in chunk order:
\* vector i has chunk_index i (from 0), total_chunks is the number of chunks
\* on every vector, the values of vector i are the embedding returned for
\* chunk i, and the ids of the vectors are pairwise distinct.
C34_VectorsFollowChunks ==
    LET chunks == chunkContentForEmbedding(proc.content, MaxChunkSize)
    IN  proc.vectors # <<>>
        => /\ Len(proc.vectors) = Len(chunks)
           /\ \A p \in 1..Len(proc.vectors) :
                 LET vector == proc.vectors[p]
                 IN  /\ vector.metadata.fields["chunk_index"] = p - 1
                     /\ vector.metadata.fields["total_chunks"] = Len(chunks)
                     /\ vector.embeds = chunks[p]
                     /\ vector.values = PINECONE_CONFIG.dimensions
           /\ \A p, q \in 1..Len(proc.vectors) :
                 proc.vectors[p].id = proc.vectors[q].id => p = q

\* two different chunks have come back as two vectors
C34_Witness ==
    /\ Len(proc.vectors) = 2
    /\ proc.chunks[1] # proc.chunks[2]
    /\ proc.vectors[2].embeds = proc.chunks[2]

---------------------------------------------------------------------------
(* Properties of normalizePublisherName (checked under SpecNormalize)      *)

Normalized == pure.pc = "returned" /\ pure.fn = "normalizePublisherName"

\* the canonical key a table entry stands for
CanonicalOf(name) ==
    IF name \in DOMAIN PUBLISHER_CONFIG.aliases THEN name
    ELSE CHOOSE canonical \in DOMAIN PUBLISHER_CONFIG.aliases :
            name \in PUBLISHER_CONFIG.aliases[canonical]

\* C27: a canonical key or an alias, written in any letter case and with
\* spaces around it, is mapped to the canonical key; a name that is neither
\* is returned exactly as it was given.
C27_AliasesToCanonical ==
    Normalized
    => IF pure.args.from # ""
       THEN pure.result = spell(CanonicalOf(pure.args.from))
       ELSE pure.result = pure.args.publisherName

\* ' BRITCO' and 'Brit Co ' have been mapped to 'brit+co'
C27_Witness ==
    /\ Normalized
    /\ pure.args.publisherName \in {<<" ", "B", "R", "I", "T", "C", "O">>,
                                     <<"B", "r", "i", "t", " ", "C", "o", " ">>}
    /\ pure.result = spell("brit+co")

\* a name the table does not hold has come back with its case and its spaces
UnknownNameAsGiven ==
    /\ Normalized
    /\ pure.args.publisherName = <<" ", "B", "r", "i">>
    /\ pure.result = <<" ", "B", "r", "i">>

---------------------------------------------------------------------------
(* Properties of the search helpers (checked under SpecSearch)             *)

\* the queryRequest of the one queryVectors call a search has made
Searched  == search.pc # "idle"
SearchRequest == rt[StoreTask("query")].request.queryRequest

\* C28: a search helper makes one query; its filter holds the helper's own
\* entry (publisher: the normalized name, or date: the range from startDate
\* to endDate) whatever options.filter holds, the other filter entries are
\* those of options.filter, and every other option is the one queryVectors
\* uses for the same options.
C28_SearchAddsOwnFilter ==
    Searched
    => LET options == search.args.options
           plain   == queryRequestOf(search.args.query, options)
           own     == IF search.fn = "searchPublisherContent" THEN "publisher"
                      ELSE "date"
       IN  /\ DOMAIN rt = {StoreTask("query")}
           /\ \A k \in DOMAIN plain \ {"filter"} : SearchRequest[k] = plain[k]
           /\ DOMAIN SearchRequest.filter = DOMAIN plain.filter \cup {own}
           /\ \A k \in DOMAIN plain.filter \ {own} :
                 SearchRequest.filter[k] = plain.filter[k]
           /\ search.fn = "searchPublisherContent" =>
                 SearchRequest.filter["publisher"] =
                    normalizePublisherName(search.args.publisherName)
           /\ search.fn = "searchContentByDateRange" =>
                 SearchRequest.filter["date"] =
                    dateRange(search.args.startDate, search.args.endDate)

\* (what the code sends: the helper's entry only where options.filter has
\* no entry under the same key)
SearchFilterYieldsToOptions ==
    Searched
    => LET options == search.args.options
           plain   == queryRequestOf(search.args.query, options)
           own     == IF search.fn = "searchPublisherContent" THEN "publisher"
                      ELSE "date"
       IN  /\ DOMAIN rt = {StoreTask("query")}
           /\ \A k \in DOMAIN plain \ {"filter"} : SearchRequest[k] = plain[k]
           /\ DOMAIN SearchRequest.filter = DOMAIN plain.filter \cup {own}
           /\ \A k \in DOMAIN plain.filter : SearchRequest.filter[k] = plain.filter[k]
           /\ (own \notin DOMAIN plain.filter /\ own = "publisher") =>
                 SearchRequest.filter["publisher"] =
                    normalizePublisherName(search.args.publisherName)
           /\ (own \notin DOMAIN plain.filter /\ own = "date") =>
                 SearchRequest.filter["date"] =
                    dateRange(search.args.startDate, search.args.endDate)

\* a search for 'Brit' with options.filter.publisher 'wired' has been sent
\* with publisher 'wired'
SearchForOtherPublisher ==
    /\ Searched
    /\ search.fn = "searchPublisherContent"
    /\ search.args.publisherName = spell("Brit")
    /\ SearchRequest.filter["publisher"] = spell("wired")

---------------------------------------------------------------------------
(* Properties of recordMetric (checked under SpecMetrics)                  *)

\* the recordMetric calls made for an operation, in order
MetricRecords(operation) ==
    SelectSeq(recorded, LAMBDA e : e.kind = "metric" /\ e.operation = operation)

RECURSIVE SumCounts(_)
SumCounts(log) == IF log = <<>> THEN 0 ELSE Head(log).count + SumCounts(Tail(log))

RECURSIVE SumDurations(_)
SumDurations(log) ==
    IF log = <<>> THEN 0 ELSE Head(log).duration + SumDurations(Tail(log))

DurationsOf(log) == {log[i].duration : i \in 1..Len(log)}

\* C29: after any recordMetric calls, the metric of an operation holds the
\* sum of the counts and the sum of the durations recorded for it, the
\* least and the greatest of those durations (so minDuration <= maxDuration),
\* and as slowQueries the number of records whose duration was strictly
\* greater than slowQueryThreshold.
C29_MetricAggregates ==
    \A operation \in RecordedOperations :
       LET log == MetricRecords(operation)
       IN  IF log = <<>> THEN operation \notin DOMAIN metrics.operations
           ELSE LET metric == metrics.operations[operation]
                IN  /\ metric.count = SumCounts(log)
                    /\ metric.totalDuration = SumDurations(log)
                    /\ ~metric.minDuration.infinite
                    /\ metric.minDuration.value \in DurationsOf(log)
                    /\ \A d \in DurationsOf(log) : metric.minDuration.value <= d
                    /\ metric.maxDuration \in DurationsOf(log)
                    /\ \A d \in DurationsOf(log) : d <= metric.maxDuration
                    /\ metric.minDuration.value <= metric.maxDuration
                    /\ metric.slowQueries =
                          Cardinality({i \in 1..Len(log) :
                              log[i].duration > PERFORMANCE_CONFIG.slowQueryThreshold})

\* three queries recorded, at the threshold, just above it and below it:
\* one of them counts as slow
C29_Witness ==
    /\ Len(MetricRecords("query")) = 3
    /\ [i \in 1..3 |-> MetricRecords("query")[i].duration] =
          <<PERFORMANCE_CONFIG.slowQueryThreshold,
            PERFORMANCE_CONFIG.slowQueryThreshold + 1, 1500>>
    /\ metrics.operations["query"].slowQueries = 1
    /\ metrics.operations["query"].minDuration = Finite(1500)

---------------------------------------------------------------------------
(* Properties of getMetrics (checked under SpecSnapshot)                   *)

Holding == pure.pc = "returned" /\ pure.fn = "getMetrics"

\* C30: what getMetrics has returned is a read-only snapshot: a metric or an
\* error recorded afterwards does not change what the holder reads from it,
\* and a modification made by the holder does not change the metrics of
\* the service.
C30_SnapshotIsReadOnly ==
    [][/\ (Holding /\ recorded' # recorded) => ReturnedValue' = ReturnedValue
       /\ CallerModifiesReturned => metrics' = metrics]_vars

\* (the object returned is the live one: at every moment the holder reads
\* the current metrics of the service)
ReturnedIsLive ==
    Holding => ReturnedValue = [operations |-> metrics.operations,
                                errors |-> metrics.errors]

\* C40: after any sequence of recorded operations, those recorded with
\* count 0 included (a query without matches, a fetch without vectors), the
\* avgDuration of every operation metric is the finite number totalDuration
\* divided by count; no division by zero has occurred.
C40_AverageIsFinite ==
    \A operation \in DOMAIN metrics.operations :
        LET metric == metrics.operations[operation]
        IN  /\ metric.count # 0
            /\ metric.avgDuration = [num |-> metric.totalDuration, den |-> metric.count]

\* (what the code keeps: the quotient whenever the count is not 0)
AverageWhenCounted ==
    \A operation \in DOMAIN metrics.operations :
        LET metric == metrics.operations[operation]
        IN  metric.count # 0 =>
               metric.avgDuration = [num |-> metric.totalDuration, den |-> metric.count]

\* a metric whose average is not a number, or is infinite
AverageNotFinite ==
    \E operation \in DOMAIN metrics.operations :
        LET metric == metrics.operations[operation]
        IN  /\ metric.count = 0
            /\ metric.avgDuration \in {Infinity, [isNaN |-> TRUE, value |-> 0]}

---------------------------------------------------------------------------
(* Properties of the metrics under concurrent writers (checked under       *)
(* SpecWriters)                                                            *)

ErrorRecords(operation) ==
    SelectSeq(recorded, LAMBDA e : e.kind = "error" /\ e.operation = operation)

RecordedAs(kind) == {recorded[i].operation : i \in {j \in 1..Len(recorded) :
                                                      recorded[j].kind = kind}}

\* the counts the calls in `tasks` pass to recordMetric, added up
RECURSIVE SumOfCalls(_)
SumOfCalls(tasks) ==
    IF tasks = {} THEN 0
    ELSE LET t == CHOOSE x \in tasks : TRUE
         IN  operationCount(rt[t].request) + SumOfCalls(tasks \ {t})

\* C31: whatever the interleaving of the completions, the count of every
\* operation is the sum of the counts recorded for it and every error count
\* is the number of failures recorded for it; for query, delete and fetch
\* these are the counts of the calls that have resolved and the number of
\* calls that have rejected.
C31_NoLostUpdate ==
    /\ DOMAIN metrics.operations = RecordedAs("metric")
    /\ DOMAIN metrics.errors = RecordedAs("error")
    /\ \A operation \in DOMAIN metrics.operations :
          metrics.operations[operation].count = SumCounts(MetricRecords(operation))
    /\ \A operation \in DOMAIN metrics.errors :
          metrics.errors[operation] = Len(ErrorRecords(operation))
    /\ \A operation \in StoreOperations :
          LET resolved == {t \in StoreTasks : t[1] = operation /\ rt[t].pc = "resolved"}
              rejected == {t \in StoreTasks : t[1] = operation /\ rt[t].pc = "rejected"}
          IN  /\ resolved # {} =>
                    metrics.operations[operation].count = SumOfCalls(resolved)
              /\ resolved = {} => operation \notin DOMAIN metrics.operations
              /\ rejected # {} => metrics.errors[operation] = Cardinality(rejected)
              /\ rejected = {} => operation \notin DOMAIN metrics.errors

\* two queries that were in flight together have each found one match, the
\* batches of an upsert have been acknowledged
\* and a probe has ended
C31_Witness ==
    /\ {<<"query", 1>>, <<"query", 2>>} \subseteq DOMAIN rt
    /\ rt[<<"query", 1>>].pc = "resolved"
    /\ rt[<<"query", 2>>].pc = "resolved"
    /\ metrics.operations["query"].count = 2
    /\ "batch_upsert" \in DOMAIN metrics.operations
    /\ Len(up.batches) > 1
    /\ probes.log # <<>>

---------------------------------------------------------------------------
(* Properties of initialize (checked under SpecInitialize)                 *)

has(call, stage) == \E i \in 1..Len(call.done) : call.done[i] = stage

\* the call has completed every step of initialize
CompletedEveryStep(call) ==
    /\ call.pc = "resolved"
    /\ has(call, "init")
    /\ has(call, "found") \/ (has(call, "created") /\ has(call, "ready"))
    /\ has(call, "Index")
    /\ has(call, "monitors")

\* C32: isInitialized is true only if an initialize call has completed every
\* step (client init, index found, or created and reported ready, index
\* handle obtained, monitors started); a call one of whose steps fails
\* rejects with that step's error, and as long as no call has completed
\* isInitialized is false.
C32_InitializedOnlyWhenComplete ==
    /\ service.isInitialized <=>
           \E k \in InitializeCalls : CompletedEveryStep(service.calls[k])
    /\ \A k \in InitializeCalls :
          LET call == service.calls[k]
          IN  /\ call.pc = "resolved" => CompletedEveryStep(call)
              /\ call.pc = "rejected" =>
                    /\ call.failed \in {"init", "listIndexes", "createIndex",
                                        "ready", "verify", "Index"}
                    /\ ~has(call, call.failed)
                    /\ call.error = ErrorOf(call.failed)
                    /\ ~has(call, "monitors")

\* the index was created and reported ready at the second poll, and the
\* call completed; an earlier call had failed when asking for the handle
C32_Witness ==
    /\ Len(service.calls) = 2
    /\ service.calls[1].pc = "rejected"
    /\ service.calls[1].failed = "Index"
    /\ service.calls[2].pc = "resolved"
    /\ service.calls[2].polls = 1
    /\ has(service.calls[2], "created")
    /\ service.isInitialized

\* C35: for one service at most one periodic health-probe loop is ever
\* active, whatever initialize calls have been made.
C35_OneProbeLoop == service.healthTimers <= 1

\* (what the code keeps: one loop per completed initialize call, none for a
\* call that failed)
OneLoopPerCompletedCall ==
    /\ service.healthTimers =
           Cardinality({k \in InitializeCalls : service.calls[k].pc = "resolved"})
    /\ service.metricsTimers = service.healthTimers

====
